---- MODULE Spec2Model ----
(***************************************************************************)
(* A model of the bytec backend (src/src/backend.rs): the lowering of the  *)
(* typed IR to the Java AST (Term::lower, Statement::lower, Fn::lower,     *)
(* Item::lower, Type::lower), the emitter (JTerm::gen, JStmt::gen,         *)
(* JFn::gen, JItem::gen) and, for the claims about what the emitted code   *)
(* computes, the Java semantics of the emitted statements.                 *)
(***************************************************************************)
EXTENDS Integers, Sequences, FiniteSets, TLC

VARIABLES
    pc,     \* the phase the run is in
    inp,    \* the input the frontend hands over (IR items, extern results)
    cxt,    \* the lowering context, struct Cxt
    rt,     \* the state of the running emitted program
    obs     \* what the last operation was and the state it started from

vars == <<pc, inp, cxt, rt, obs>>

(***************************************************************************)
(* Bounds of the model.                                                    *)
(***************************************************************************)
MaxComp == 2        \* components of an array element (0..MaxComp)
MaxLit == 2         \* elements of a non-empty array literal (1..MaxLit)
MaxJava == 1        \* length of an array an extern function returns (0..MaxJava)
MaxPush == 9        \* pushes lowered and run after the declaration
MaxOther == 1       \* pops, clears and lens lowered and run after the declaration

(***************************************************************************)
(* Program constants.                                                      *)
(***************************************************************************)
EmptyCap == 8       \* JTerm::gen renders an empty array literal as new T[8]
GrowFactor == 2     \* push allocates old.length * 2

(***************************************************************************)
(* MaybeList<T>: One(T) | Tuple(Vec<T>).                                   *)
(***************************************************************************)
One(t) == [one |-> TRUE, v |-> <<t>>]
Tuple(v) == [one |-> FALSE, v |-> v]
MEmpty == Tuple(<<>>)
ToVec(m) == m.v
MLen(m) == Len(m.v)

(***************************************************************************)
(* JTy.  I32, I64, Bool, String are <<name>>; Array(t) is <<"Array", t>>;  *)
(* Class(c) is <<"Class", c>>.                                             *)
(***************************************************************************)
JI32 == <<"I32">>
JI64 == <<"I64">>
JBool == <<"Bool">>
JString == <<"String">>
JArray(t) == <<"Array", t>>
JClassTy(c) == <<"Class", c>>

\* JTy::null: the zero value a Let without initialiser is given
TyNull(t) ==
    CASE t[1] = "I32" -> <<"Int", 0>>
      [] t[1] = "I64" -> <<"Int", 0>>
      [] t[1] = "Bool" -> <<"Bool", FALSE>>
      [] OTHER -> <<"Null">>

(***************************************************************************)
(* JTerm, JLVal, JStmt constructors.  A JVar is <<id, public>>.            *)
(***************************************************************************)
None == [tag |-> "None"]
Some(x) == [tag |-> "Some", x |-> x]
JVarT(v, ty) == [tag |-> "Var", v |-> v, ty |-> ty]
JLitInt(n) == [tag |-> "Lit", lit |-> <<"Int", n>>]
JProp(obj, prop, ty) == [tag |-> "Prop", obj |-> obj, prop |-> prop, ty |-> ty]
JBinOp(op, a, b) == [tag |-> "BinOp", op |-> op, a |-> a, b |-> b]
JIndex(arr, idx, ty) == [tag |-> "Index", arr |-> arr, idx |-> idx, ty |-> ty]
JArrayLit(v, ty) == [tag |-> "Array", v |-> v, ty |-> ty]
JArrayNew(len, ty) == [tag |-> "ArrayNew", len |-> len, ty |-> ty]
JCall(o, f, args, ty) == [tag |-> "Call", o |-> o, f |-> f, args |-> args, ty |-> ty]
JVariant(class, s) == [tag |-> "Variant", class |-> class, s |-> s]
JClassNew(class, args) == [tag |-> "ClassNew", class |-> class, args |-> args]

LVar(v) == [tag |-> "Var", v |-> v]
LIdx(l, i) == [tag |-> "Idx", l |-> l, i |-> i]
LProp(a, b) == [tag |-> "Prop", a |-> a, b |-> b]

SLet(n, ty, v, x) == [tag |-> "Let", n |-> n, ty |-> ty, v |-> v, x |-> x]
SSet(l, op, x) == [tag |-> "Set", l |-> l, op |-> op, x |-> x]
STerm(x) == [tag |-> "Term", x |-> x]
SIf(c, a, b) == [tag |-> "If", c |-> c, a |-> a, b |-> b]
SSwitch(k, x, branches, default) ==
    [tag |-> "Switch", k |-> k, x |-> x, branches |-> branches, default |-> default]
SRet(f, v) == [tag |-> "Ret", f |-> f, v |-> v]
SWhile(k, c, block) == [tag |-> "While", k |-> k, c |-> c, block |-> block]
SRangeFor(k, n, v, a, b, block) ==
    [tag |-> "RangeFor", k |-> k, n |-> n, v |-> v, a |-> a, b |-> b, block |-> block]
SBreak(k) == [tag |-> "Break", k |-> k]
SContinue(k) == [tag |-> "Continue", k |-> k]
SMultiCall(o, f, args, rets) ==
    [tag |-> "MultiCall", o |-> o, f |-> f, args |-> args, rets |-> rets]

\* Prop::Raw(sym): the interned string, as a tuple of its parts
Raw(s) == <<"raw", s>>
RawEnum(variant, n) == <<"raw", "_enum", variant, n>>

\* JTerm::ty
RECURSIVE TermTy(_)
TermTy(t) ==
    CASE t.tag = "Var" -> t.ty
      [] t.tag = "Null" -> t.ty
      [] t.tag = "This" -> JClassTy(t.class)
      [] t.tag = "Lit" -> IF t.lit[1] = "Int" THEN JI32
                          ELSE IF t.lit[1] = "Long" THEN JI64
                          ELSE IF t.lit[1] = "Str" THEN JString ELSE JBool
      [] t.tag = "Not" -> JBool
      [] t.tag = "Call" -> t.ty
      [] t.tag = "Prop" -> t.ty
      [] t.tag = "Array" -> t.ty
      [] t.tag = "ArrayNew" -> t.ty
      [] t.tag = "ClassNew" -> JClassTy(t.class)
      [] t.tag = "Index" -> t.ty
      [] t.tag = "BinOp" -> IF t.op \in {"Gt", "Lt", "Eq", "Neq"} THEN JBool
                            ELSE TermTy(t.a)
      [] t.tag = "Variant" -> JClassTy(t.class)

\* JTerm::simple
SimpleAll(t) == TRUE
Simple(t) == t.tag \in {"Var", "Variant", "Lit", "Null", "This"}

\* JTerm::to_lval
RECURSIVE ToLval(_)
\* a conversion that takes every index for an l-value
ToLvalAnyIndex(t) ==
    CASE t.tag = "Var" -> LVar(t.v)
      [] t.tag = "Index" -> LIdx(ToLval(t.arr), t.idx)
      [] t.tag = "Prop" -> LProp(t.obj, t.prop)
      [] OTHER -> None
ToLval(t) ==
    CASE t.tag = "Var" -> LVar(t.v)
      [] t.tag = "Index" ->
            LET a == ToLval(t.arr)
            IN  IF a.tag = "None" THEN None ELSE LIdx(a, t.idx)
      [] t.tag = "Prop" -> LProp(t.obj, t.prop)
      [] OTHER -> None

(***************************************************************************)
(* The Java semantics of the emitted text.  A run-time value is            *)
(* <<"Int", n>>, <<"Bool", b>>, <<"Ref", address>>, <<"Enum", variant>> or *)
(* <<"Null">>.  The state of a running program is                          *)
(*   store   : JVar id -> value, the locals in scope                       *)
(*   heap    : address -> array (a sequence) or object (field -> value)    *)
(*   statics : <<fn id, i>> -> value, the declared return slots            *)
(*   ctl     : "run", "ret" (a return was executed), "exc" (an exception   *)
(*             was thrown)                                                 *)
(*   retv    : the value of the last return x;                             *)
(* The environment env names the functions a call can reach:               *)
(*   fns     : fn id -> [args, body], the emitted JFn                      *)
(*   ext     : fn id -> the array an extern function returns               *)
(*   copy    : the fn id of the predefined System.arraycopy                *)
(***************************************************************************)
IntV(n) == <<"Int", n>>
BoolV(b) == <<"Bool", b>>
RefV(a) == <<"Ref", a>>
NullV == <<"Null">>

Put(f, k, v) == (k :> v) @@ f
Raise(st) == [st EXCEPT !.ctl = "exc"]
Repeat(v, n) == [i \in 1..n |-> v]
Restrict(f, S) == [k \in (DOMAIN f) \cap S |-> f[k]]

\* BinOp on two Java values
BinOpV(op, a, b) ==
    CASE op = "Add" -> IntV(a[2] + b[2])
      [] op = "Sub" -> IntV(a[2] - b[2])
      [] op = "Mul" -> IntV(a[2] * b[2])
      [] op = "Gt" -> BoolV(a[2] > b[2])
      [] op = "Lt" -> BoolV(a[2] < b[2])
      [] op = "Eq" -> BoolV(a = b)
      [] op = "Neq" -> BoolV(a # b)

\* System.arraycopy(src, srcPos, dest, destPos, length)
ArrayCopy(st, a) ==
    IF a[1][1] # "Ref" \/ a[3][1] # "Ref" THEN Raise(st)
    ELSE LET src == st.heap[a[1][2]]
             dst == st.heap[a[3][2]]
             sp == a[2][2]
             dp == a[4][2]
             n == a[5][2]
         IN  IF sp < 0 \/ dp < 0 \/ n < 0 \/ sp + n > Len(src) \/ dp + n > Len(dst)
             THEN Raise(st)
             ELSE [st EXCEPT !.heap[a[3][2]] =
                      [i \in 1..Len(dst) |->
                          IF i > dp /\ i <= dp + n THEN src[i - dp + sp] ELSE dst[i]]]

RECURSIVE EvalS(_, _, _), EvalList(_, _, _, _), ExecS(_, _, _, _), CallFn(_, _, _, _)
RECURSIVE ReadSlots(_, _, _, _), WriteSlots(_, _, _, _, _)
RECURSIVE ForRun(_, _, _, _, _)
RECURSIVE WhileRun(_, _, _, _)

Val(v, st) == [val |-> v, st |-> st]
\* the value a term has when its operands r have been evaluated without exception
Then(r, v) == IF r.st.ctl # "run" THEN Val(NullV, r.st) ELSE Val(v, r.st)
\* allocate a heap cell for an array or an object
Alloc(r, cell) ==
    IF r.st.ctl # "run" THEN Val(NullV, r.st)
    ELSE Val(RefV(Len(r.st.heap) + 1), [r.st EXCEPT !.heap = Append(@, cell)])
InBounds(st, ref, i) == i[2] >= 0 /\ i[2] < Len(st.heap[ref[2]])

EvalProp(t, r) ==
    IF r.st.ctl # "run" THEN r
    ELSE IF r.val[1] # "Ref" THEN Val(NullV, Raise(r.st))
    ELSE IF t.prop = Raw("length") THEN Val(IntV(Len(r.st.heap[r.val[2]])), r.st)
    ELSE Val(r.st.heap[r.val[2]][t.prop], r.st)
EvalIndex(r) ==
    IF r.st.ctl # "run" THEN Val(NullV, r.st)
    ELSE IF r.vals[1][1] # "Ref" THEN Val(NullV, Raise(r.st))
    ELSE IF ~InBounds(r.st, r.vals[1], r.vals[2]) THEN Val(NullV, Raise(r.st))
    ELSE Val(r.st.heap[r.vals[1][2]][r.vals[2][2] + 1], r.st)
EvalArrayNew(t, r) ==
    IF r.st.ctl # "run" THEN r
    ELSE IF r.val[2] < 0 THEN Val(NullV, Raise(r.st))
    ELSE Alloc(r, Repeat(TyNull(t.ty[2]), r.val[2]))
EvalCall(t, r, env) ==
    IF r.st.ctl # "run" THEN Val(NullV, r.st)
    ELSE IF t.f \in DOMAIN env.ext THEN Alloc(r, env.ext[t.f])
    ELSE CallFn(t.f, r.vals, r.st, env)

\* JTerm::gen, by what the text it renders evaluates to
EvalS(t, st, env) ==
    IF st.ctl # "run" THEN Val(NullV, st)
    ELSE CASE t.tag = "Var" -> Val(st.store[t.v[1]], st)
      [] t.tag = "Lit" -> Val(t.lit, st)
      [] t.tag = "Null" -> Val(NullV, st)
      [] t.tag = "Variant" -> Val(<<"Enum", t.s>>, st)
      [] t.tag = "Not" ->
            LET r == EvalS(t.x, st, env) IN Then(r, BoolV(~r.val[2]))
      [] t.tag = "BinOp" ->
            LET r == EvalList(<<t.a, t.b>>, 1, st, env)
            IN  Then(r, BinOpV(t.op, r.vals[1], r.vals[2]))
      [] t.tag = "Prop" -> EvalProp(t, EvalS(t.obj, st, env))
      [] t.tag = "Index" -> EvalIndex(EvalList(<<t.arr, t.idx>>, 1, st, env))
      \* an empty literal is rendered new T[8]
      [] t.tag = "Array" /\ Len(t.v) = 0 ->
            Alloc(Val(NullV, st), Repeat(TyNull(t.ty[2]), EmptyCap))
      [] t.tag = "Array" /\ Len(t.v) > 0 ->
            LET r == EvalList(t.v, 1, st, env) IN Alloc(r, r.vals)
      [] t.tag = "ArrayNew" -> EvalArrayNew(t, EvalS(t.len, st, env))
      [] t.tag = "ClassNew" -> Alloc(Val(NullV, st), env.fields[t.class])
      [] t.tag = "Call" -> EvalCall(t, EvalList(t.args, 1, st, env), env)

EvalCons(v, rest) == [vals |-> <<v>> \o rest.vals, st |-> rest.st]
EvalRest(r, ts, i, env) == EvalCons(r.val, EvalList(ts, i + 1, r.st, env))
EvalList(ts, i, st, env) ==
    IF i > Len(ts) THEN [vals |-> <<>>, st |-> st]
    ELSE EvalRest(EvalS(ts[i], st, env), ts, i, env)

\* a call of an emitted function: the callee runs on its own locals, and the
\* result is the value of its return x;
CallArgs(fn, vals) ==
    [id \in {fn.args[j][2][1] : j \in 1..Len(fn.args)} |->
        vals[CHOOSE j \in 1..Len(fn.args) : fn.args[j][2][1] = id]]
CallDone(done, st) ==
    Val(done.retv, [done EXCEPT !.store = st.store,
                                !.ctl = IF done.ctl = "exc" THEN "exc" ELSE "run"])
CallFn(f, vals, st, env) ==
    CallDone(ExecS(env.fns[f].body, 1,
                   [st EXCEPT !.store = CallArgs(env.fns[f], vals)], env), st)

\* JStmt::gen (Ret) with two or more terms: f$_ret<i>$S = t_i; in order
SlotPut(f, i, r) ==
    IF r.st.ctl # "run" THEN r.st
    ELSE [r.st EXCEPT !.statics = Put(@, <<f, i>>, r.val)]
WriteSlots(f, v, i, st, env) ==
    IF i > Len(v) \/ st.ctl # "run" THEN st
    ELSE WriteSlots(f, v, i + 1, SlotPut(f, i - 1, EvalS(v[i], st, env)), env)

\* JStmt::gen (MultiCall): T v_i = f$_ret<i>$S; for each out-binding
ReadSlots(f, rets, i, st) ==
    IF i > Len(rets) \/ st.ctl # "run" THEN st
    \* a field that is not declared: javac rejects the text, nothing runs
    ELSE IF <<f, i - 1>> \notin DOMAIN st.statics THEN Raise(st)
    ELSE ReadSlots(f, rets, i + 1,
             [st EXCEPT !.store = Put(@, rets[i][2][1], st.statics[<<f, i - 1>>])])

ExecLet(s, r) ==
    IF r.st.ctl # "run" THEN r.st ELSE [r.st EXCEPT !.store = Put(@, s.v[1], r.val)]
ExecSetVar(s, r) ==
    IF r.st.ctl # "run" THEN r.st
    ELSE [r.st EXCEPT !.store[s.l.v[1]] =
             IF s.op = "None" THEN r.val ELSE BinOpV(s.op, @, r.val)]
\* a[i] op= x: the array, the index, the right-hand side, then the store
ExecSetIdx(s, r) ==
    IF r.st.ctl # "run" THEN r.st
    ELSE IF r.vals[1][1] # "Ref" THEN Raise(r.st)
    ELSE IF ~InBounds(r.st, r.vals[1], r.vals[2]) THEN Raise(r.st)
    ELSE [r.st EXCEPT !.heap[r.vals[1][2]][r.vals[2][2] + 1] =
             IF s.op = "None" THEN r.vals[3] ELSE BinOpV(s.op, @, r.vals[3])]
ExecSetProp(s, r) ==
    IF r.st.ctl # "run" THEN r.st
    ELSE IF r.vals[1][1] # "Ref" THEN Raise(r.st)
    ELSE [r.st EXCEPT !.heap[r.vals[1][2]] = Put(@, s.l.b, r.vals[2])]
\* the locals of a branch go out of scope at its end
ExecIf(s, st, r, env) ==
    IF r.st.ctl # "run" THEN r.st
    ELSE [ExecS(IF r.val[2] THEN s.a ELSE s.b, 1, r.st, env)
            EXCEPT !.store = Restrict(@, DOMAIN st.store)]
\* the block of the first case labelled with the value, or the default block
SwitchBlock(s, v) ==
    IF \E i \in 1..Len(s.branches) : s.branches[i][1] = v[2]
    THEN s.branches[CHOOSE i \in 1..Len(s.branches) :
                        /\ s.branches[i][1] = v[2]
                        /\ \A j \in 1..(i - 1) : s.branches[j][1] # v[2]][2]
    ELSE s.default
\* JStmt::gen (Switch): b$k: switch (x) { case V: block; break b$k; ...
\* default: block }.  The statements written under a case label
SwitchArmOpen(s, i) == s.branches[i][2]
SwitchArm(s, i) == Append(s.branches[i][2], SBreak(s.k))
\* the statements written from the i-th case label to the end of the switch
RECURSIVE SwitchFrom(_, _)
SwitchFrom(s, i) ==
    IF i > Len(s.branches) THEN s.default ELSE SwitchArm(s, i) \o SwitchFrom(s, i + 1)
\* the label control is passed to: the first case with the value, or default
SwitchEntry(s, v) ==
    IF \E i \in 1..Len(s.branches) : s.branches[i][1] = v[2]
    THEN CHOOSE i \in 1..Len(s.branches) :
            /\ s.branches[i][1] = v[2]
            /\ \A j \in 1..(i - 1) : s.branches[j][1] # v[2]
    ELSE Len(s.branches) + 1
\* the statements run from the label on, through the labels that follow, until
\* the end of the switch or an abrupt end; break b$k ends the switch normally
SwitchEnd(s, w) == IF w.ctl = "break" /\ w.lbl = s.k THEN [w EXCEPT !.ctl = "run"] ELSE w
ExecSwitch(s, st, r, env) ==
    IF r.st.ctl # "run" THEN r.st
    ELSE IF r.val[1] # "Enum" THEN Raise(r.st)
    ELSE [SwitchEnd(s, ExecS(SwitchFrom(s, SwitchEntry(s, r.val)), 1, r.st, env))
            EXCEPT !.store = Restrict(@, DOMAIN st.store)]
ExecRet1(r) ==
    IF r.st.ctl # "run" THEN r.st ELSE [r.st EXCEPT !.ctl = "ret", !.retv = r.val]
ExecRetN(w) == IF w.ctl # "run" THEN w ELSE [w EXCEPT !.ctl = "ret"]
ExecMultiCall(s, r, env) ==
    IF r.st.ctl # "run" THEN r.st
    ELSE IF s.f = env.copy THEN ArrayCopy(r.st, r.vals)
    ELSE ReadSlots(s.f, s.rets, 1, CallFn(s.f, r.vals, r.st, env).st)

\* JStmt::gen (RangeFor): b$k: for (int v = a, $end_k = b; v < $end_k; v++) { block }
\* the bounds are evaluated once; a turn ends normally or by continue b$k, the
\* loop ends when v reaches the end or by break b$k; any other abrupt end is
\* passed on; the locals of the block go out of scope after each turn
ForNext(s, end, keep, w, env) ==
    IF w.ctl = "run" \/ (w.ctl = "continue" /\ w.lbl = s.k)
    THEN ForRun(s, end, keep,
                [w EXCEPT !.ctl = "run",
                          !.store = Put(Restrict(w.store, keep), s.v[1],
                                        IntV(w.store[s.v[1]][2] + 1))],
                env)
    ELSE IF w.ctl = "break" /\ w.lbl = s.k THEN [w EXCEPT !.ctl = "run"]
    ELSE w
\* a loop whose end is evaluated again before every turn
ForRunAgain(s, end, keep, st, env) ==
    IF st.store[s.v[1]][2] < EvalS(s.b, st, env).val[2]
    THEN ForNext(s, end, keep, ExecS(s.block, 1, st, env), env)
    ELSE st
ForRun(s, end, keep, st, env) ==
    IF st.store[s.v[1]][2] < end
    THEN ForNext(s, end, keep, ExecS(s.block, 1, st, env), env)
    ELSE st
ExecFor(s, st, r, env) ==
    IF r.st.ctl # "run" THEN r.st
    ELSE [ForRun(s, r.vals[2][2], DOMAIN st.store \cup {s.v[1]},
                 [r.st EXCEPT !.store = Put(@, s.v[1], r.vals[1])], env)
            EXCEPT !.store = Restrict(@, DOMAIN st.store)]

\* JStmt::gen (While): b$k: while (cond) { block }
\* the condition term is evaluated before every turn; a turn ends normally or
\* by continue b$k, the loop ends when the condition is false or by break b$k
WhileNext(s, keep, w, env) ==
    IF w.ctl = "run" \/ (w.ctl = "continue" /\ w.lbl = s.k)
    THEN WhileRun(s, keep, [w EXCEPT !.ctl = "run", !.store = Restrict(w.store, keep)], env)
    ELSE IF w.ctl = "break" /\ w.lbl = s.k
    THEN [w EXCEPT !.ctl = "run", !.store = Restrict(w.store, keep)]
    ELSE w
WhileTurn(s, keep, r, env) ==
    IF r.st.ctl # "run" THEN r.st
    ELSE IF r.val[2] THEN WhileNext(s, keep, ExecS(s.block, 1, r.st, env), env)
    ELSE r.st
WhileRun(s, keep, st, env) == WhileTurn(s, keep, EvalS(s.c, st, env), env)

\* JStmt::gen, by what the text it renders executes
ExecOne(s, st, env) ==
    CASE s.tag = "Let" /\ s.x.tag = "None" ->
            [st EXCEPT !.store = Put(@, s.v[1], TyNull(s.ty))]
      [] s.tag = "Let" /\ s.x.tag # "None" -> ExecLet(s, EvalS(s.x, st, env))
      [] s.tag = "Set" /\ s.l.tag = "Var" -> ExecSetVar(s, EvalS(s.x, st, env))
      [] s.tag = "Set" /\ s.l.tag = "Idx" ->
            ExecSetIdx(s, EvalList(<<JVarT(s.l.l.v, JI32), s.l.i, s.x>>, 1, st, env))
      [] s.tag = "Set" /\ s.l.tag = "Prop" ->
            ExecSetProp(s, EvalList(<<s.l.a, s.x>>, 1, st, env))
      [] s.tag = "Term" -> EvalS(s.x, st, env).st
      [] s.tag = "If" -> ExecIf(s, st, EvalS(s.c, st, env), env)
      [] s.tag = "Switch" -> ExecSwitch(s, st, EvalS(s.x, st, env), env)
      [] s.tag = "Ret" /\ Len(s.v) = 0 -> [st EXCEPT !.ctl = "ret"]
      [] s.tag = "Ret" /\ Len(s.v) = 1 -> ExecRet1(EvalS(s.v[1], st, env))
      [] s.tag = "Ret" /\ Len(s.v) > 1 -> ExecRetN(WriteSlots(s.f, s.v, 1, st, env))
      [] s.tag = "MultiCall" -> ExecMultiCall(s, EvalList(s.args, 1, st, env), env)
      [] s.tag = "RangeFor" -> ExecFor(s, st, EvalList(<<s.a, s.b>>, 1, st, env), env)
      [] s.tag = "While" -> WhileRun(s, DOMAIN st.store, st, env)
      [] s.tag = "Break" -> [st EXCEPT !.ctl = "break", !.lbl = s.k]
      [] s.tag = "Continue" -> [st EXCEPT !.ctl = "continue", !.lbl = s.k]

ExecS(ss, i, st, env) ==
    IF i > Len(ss) \/ st.ctl # "run" THEN st
    ELSE ExecS(ss, i + 1, ExecOne(ss[i], st, env), env)

(***************************************************************************)
(* The IR the frontend hands over.  A Sym is <<path, public>>; a FnId and  *)
(* a TypeId are their paths.  Types: <<"I32">>, <<"I64">>, <<"Bool">>,     *)
(* <<"Str">>, <<"Unit">>, <<"Class", tid>>, <<"Tuple", ts>>,               *)
(* <<"Array", t>>.                                                         *)
(***************************************************************************)
TI32 == <<"I32">>
TUnit == <<"Unit">>
TTupleTy(ts) == <<"Tuple", ts>>
TArrayTy(t) == <<"Array", t>>
TClassTy(tid) == <<"Class", tid>>

TVar(s) == [tag |-> "Var", s |-> s]
TLit(i) == [tag |-> "Lit", i |-> i, ty |-> TI32]
TTuple(v) == [tag |-> "Tuple", v |-> v]
TArray(v, ty) == [tag |-> "Array", v |-> v, ty |-> ty]
TArrayMethod(arr, m, x) == [tag |-> "ArrayMethod", arr |-> arr, m |-> m, x |-> x]
TCall(o, f, a) == [tag |-> "Call", o |-> o, f |-> f, a |-> a]
TReturn(x) == [tag |-> "Return", x |-> x]
TVariant(tid, s, v) == [tag |-> "Variant", tid |-> tid, s |-> s, v |-> v]
TMatch(tid, x, branches) == [tag |-> "Match", tid |-> tid, x |-> x, branches |-> branches]
TIf(c, a, b) == [tag |-> "If", c |-> c, a |-> a, b |-> b]
TBlock(v, e) == [tag |-> "Block", v |-> v, e |-> e]
TBinOp(op, a, b) == [tag |-> "BinOp", op |-> op, a |-> a, b |-> b]

StLet(n, ty, x) == [tag |-> "Let", n |-> n, ty |-> ty, x |-> x]
StTerm(x) == [tag |-> "Term", x |-> x]
StWhile(c, block) == [tag |-> "While", c |-> c, block |-> block]
StFor(n, iter, block) == [tag |-> "For", n |-> n, iter |-> iter, block |-> block]
ForRange(a, b) == [tag |-> "Range", a |-> a, b |-> b]
ForArray(arr) == [tag |-> "Array", arr |-> arr]
TBreak == [tag |-> "Break"]
TMember(x, m) == [tag |-> "Member", x |-> x, m |-> m]
TArrayIdx(arr, idx) == [tag |-> "ArrayIdx", arr |-> arr, idx |-> idx]
TSet(l, op, x) == [tag |-> "Set", l |-> l, op |-> op, x |-> x]
LVVar(v) == [tag |-> "Var", v |-> v]
LVIdx(v, idx) == [tag |-> "Idx", v |-> v, idx |-> idx]
LVMember(v, m) == [tag |-> "Member", v |-> v, m |-> m]
TContinue == [tag |-> "Continue"]

\* A path is a sequence of names.  Bindings::public(s), Bindings::sym_path(s),
\* Path::stem, lpath(raw); a FnId and a TypeId are their paths (fn_name, type_name)
Public(s) == s[2]
SymPath(s) == s[1]
Stem(p) == p[Len(p)]
LPath(raw) == <<raw>>

(***************************************************************************)
(* struct Cxt.                                                             *)
(***************************************************************************)
\* Cxt::new
CxtNew ==
    [scopes |-> <<>>, vars |-> <<>>, tys |-> <<>>, fn_ids |-> <<>>,
     fn_ret_tys |-> <<>>, types |-> <<>>, block |-> <<>>, blocks |-> <<>>,
     current_fn |-> 0, items |-> <<>>, predefs |-> <<>>, enum_wrappers |-> <<>>,
     next |-> 0, panic |-> ""]

\* a fatal abort (panic!, expect, unwrap, assert_eq!): lowering stops
Panic(c, msg) == [terms |-> MEmpty, c |-> [c EXCEPT !.panic = msg]]

\* the last entry of a list of (key, value) pairs with this key, or 0
RFind(list, k) ==
    LET hits == {i \in 1..Len(list) : list[i][1] = k}
    IN  IF hits = {} THEN 0 ELSE CHOOSE i \in hits : \A j \in hits : j <= i

\* Cxt::var, Cxt::fun, Cxt::class (the lookups that are unwrapped)
CxtVar(c, s) == c.vars[RFind(c.vars, s)][2]
CxtFun(c, f) == c.fn_ids[RFind(c.fn_ids, f)][2]
CxtClass(c, tid) == c.types[RFind(c.types, tid)][2]
\* Cxt::predef
CxtPredef(c, p) == c.predefs[CHOOSE i \in 1..Len(c.predefs) : c.predefs[i][1] = p][2]

\* Cxt::fresh_var, fresh_fn, fresh_class, fresh_block: the id allocated next
FreshIdStale(c) == c.next
FreshId(c) == c.next + 1
Bump(c) == [c EXCEPT !.next = @ + 1]

\* cxt.block.push(stmt)
PushStmt(c, s) == [c EXCEPT !.block = Append(@, s)]

\* Cxt::push, Cxt::pop
CxtPush(c) ==
    [c EXCEPT !.scopes = Append(@, <<Len(c.vars), Len(c.fn_ids), Len(c.types)>>)]
CxtPopVars(c) ==
    LET top == c.scopes[Len(c.scopes)]
    IN  [c EXCEPT !.scopes = SubSeq(@, 1, Len(@) - 1),
                  !.vars = SubSeq(@, 1, top[1])]
CxtPop(c) ==
    LET top == c.scopes[Len(c.scopes)]
    IN  [c EXCEPT !.scopes = SubSeq(@, 1, Len(@) - 1),
                  !.vars = SubSeq(@, 1, top[1]),
                  !.fn_ids = SubSeq(@, 1, top[2]),
                  !.types = SubSeq(@, 1, top[3])]

\* Cxt::push_block, Cxt::push_loop, Cxt::pop_block
CxtPushBlock(c) == [CxtPush(c) EXCEPT !.blocks = Append(@, <<None, Len(c.block)>>)]
CxtPushLoop(c, k) == [CxtPush(c) EXCEPT !.blocks = Append(@, <<Some(k), Len(c.block)>>)]
CxtPopBlockAll(c) ==
    LET p == CxtPop(c)
    IN  [stmts |-> c.block,
         c |-> [p EXCEPT !.blocks = SubSeq(@, 1, Len(@) - 1), !.block = <<>>]]
CxtPopBlock(c) ==
    LET p == CxtPop(c)
        at == c.blocks[Len(c.blocks)][2]
    IN  [stmts |-> SubSeq(c.block, at + 1, Len(c.block)),
         c |-> [p EXCEPT !.blocks = SubSeq(@, 1, Len(@) - 1),
                         !.block = SubSeq(@, 1, at)]]

\* Type::lower
RECURSIVE TypeLower(_, _), TypeLowerAll(_, _, _)
TypeLowerAll(ts, i, c) ==
    IF i > Len(ts) THEN <<>>
    ELSE ToVec(TypeLower(ts[i], c)) \o TypeLowerAll(ts, i + 1, c)
\* a lowering of arrays without the length component
TypeLowerNoLen(t, c) ==
    CASE t[1] = "I32" -> One(JI32)
      [] t[1] = "I64" -> One(JI64)
      [] t[1] = "Bool" -> One(JBool)
      [] t[1] = "Str" -> One(JString)
      [] t[1] = "Unit" -> MEmpty
      [] t[1] = "Class" ->
            LET class == CxtClass(c, t[2])
            IN  IF class \in DOMAIN c.enum_wrappers
                THEN One(JClassTy(c.enum_wrappers[class]))
                ELSE One(JClassTy(class))
      [] t[1] = "Tuple" -> Tuple(TypeLowerAll(t[2], 1, c))
      [] t[1] = "Array" ->
            LET u == ToVec(TypeLower(t[2], c))
            IN  Tuple([i \in 1..Len(u) |-> JArray(u[i])])
TypeLower(t, c) ==
    CASE t[1] = "I32" -> One(JI32)
      [] t[1] = "I64" -> One(JI64)
      [] t[1] = "Bool" -> One(JBool)
      [] t[1] = "Str" -> One(JString)
      [] t[1] = "Unit" -> MEmpty
      [] t[1] = "Class" ->
            LET class == CxtClass(c, t[2])
            IN  IF class \in DOMAIN c.enum_wrappers
                THEN One(JClassTy(c.enum_wrappers[class]))
                ELSE One(JClassTy(class))
      [] t[1] = "Tuple" -> Tuple(TypeLowerAll(t[2], 1, c))
      [] t[1] = "Array" ->
            LET u == ToVec(TypeLower(t[2], c))
            IN  Tuple([i \in 1..Len(u) |-> JArray(u[i])] \o <<JI32>>)

(***************************************************************************)
(* Term::lower.  A lowering returns [terms, c]: the JTerms and the context *)
(* after it, whose block holds the statements the lowering pushed.         *)
(***************************************************************************)
Min(a, b) == IF a <= b THEN a ELSE b
ElemTy(arr) == TermTy(arr)[2]

RECURSIVE LowerTerm(_, _), LowerList(_, _, _), LowerArrayMethod(_, _)
RECURSIVE LowerPushComps(_, _, _, _, _, _, _), LowerCall(_, _), FreshLocals(_, _, _, _, _)
RECURSIVE LowerArrayLit(_, _), LowerStmt(_, _), LowerStmts(_, _, _)
RECURSIVE LabelFrom(_, _), ForLets(_, _, _, _, _, _, _)
RECURSIVE MatchCaptures(_, _, _, _, _, _), CaptureVars(_, _, _, _, _, _, _, _)
RECURSIVE MatchBranches(_, _, _, _, _, _, _)

\* a label search that starts from the outermost block
LabelFromOutermost(blocks, i) ==
    IF \A j \in 1..Len(blocks) : blocks[j][1].tag = "None" THEN None
    ELSE blocks[CHOOSE j \in 1..Len(blocks) :
                    /\ blocks[j][1].tag # "None"
                    /\ \A h \in 1..(j - 1) : blocks[h][1].tag = "None"][1]
\* Cxt::block_label: the label of the innermost entry of blocks that has one
LabelFrom(blocks, i) ==
    IF i = 0 THEN None
    ELSE IF blocks[i][1].tag # "None" THEN blocks[i][1]
    ELSE LabelFrom(blocks, i - 1)
BlockLabel(c) == LabelFrom(c.blocks, Len(c.blocks))

\* a jump that is pushed whether or not a loop encloses it
JumpUnchecked(c, kind, label) ==
    [terms |-> MEmpty,
     c |-> PushStmt(c, IF kind = "Break" THEN SBreak(IF label.tag = "None" THEN 0 ELSE label.x)
                       ELSE SContinue(IF label.tag = "None" THEN 0 ELSE label.x))]
\* Term::Break, Term::Continue: the label is unwrapped before the push
LowerJump(c, kind, label) ==
    IF label.tag = "None"
    THEN Panic(c, IF kind = "Break" THEN "'break' outside of loop"
                  ELSE "'continue' outside of loop")
    ELSE [terms |-> MEmpty,
          c |-> PushStmt(c, IF kind = "Break" THEN SBreak(label.x) ELSE SContinue(label.x))]

\* MaybeList::one
OneOf(r) ==
    IF r.c.panic # "" \/ MLen(r.terms) = 1 THEN r
    ELSE [terms |-> MEmpty, c |-> [r.c EXCEPT !.panic = "backend: one object required"]]

\* one fresh local per type: the triples (name, var, type), the types recorded in cxt.tys
FreshLocals(raw, tys, i, c, acc) ==
    IF i > Len(tys) THEN [c |-> c, vars |-> acc]
    ELSE FreshLocals(raw, tys, i + 1,
             [Bump(c) EXCEPT !.tys = Put(@, <<FreshId(c), FALSE>>, tys[i])],
             Append(acc, <<Append(raw, i - 1), <<FreshId(c), FALSE>>, tys[i]>>))
\* the terms that read the locals, their declarations, and the stores of a branch's value
LocalTerms(lvars) == [i \in 1..Len(lvars) |-> JVarT(lvars[i][2], lvars[i][3])]
LocalLets(lvars) == [i \in 1..Len(lvars) |-> SLet(lvars[i][1], lvars[i][3], lvars[i][2], None)]
LocalSets(lvars, terms) ==
    [i \in 1..Min(Len(lvars), Len(terms)) |-> SSet(LVar(lvars[i][2]), "None", terms[i])]
\* JTerms::ty
TermTys(terms) == [i \in 1..Len(terms) |-> TermTy(terms[i])]

\* v.iter().flat_map(|x| x.lower(cxt)): the terms of all, and of each
LowerList(ts, i, c) ==
    IF i > Len(ts) \/ c.panic # "" THEN [terms |-> <<>>, each |-> <<>>, c |-> c]
    ELSE LET r == LowerTerm(ts[i], c)
             rest == LowerList(ts, i + 1, r.c)
         IN  [terms |-> ToVec(r.terms) \o rest.terms,
              each |-> <<ToVec(r.terms)>> \o rest.each,
              c |-> rest.c]

\* Term::Array(v, _), v not empty: one array per component, then the length
LowerArrayLit(t, c) ==
    LET r == LowerList(t.v, 1, c)
        n == Len(r.each[1])
    IN  IF r.c.panic # "" THEN Panic(r.c, r.c.panic)
        ELSE IF \E i \in 1..Len(r.each) : Len(r.each[i]) # n
        THEN Panic(r.c, "assertion failed")
        ELSE [terms |-> Tuple(
                 [j \in 1..n |->
                     JArrayLit([i \in 1..Len(r.each) |-> r.each[i][j]],
                               JArray(TermTy(r.each[1][j])))]
                 \o <<JLitInt(Len(t.v))>>),
              c |-> r.c]

\* ArrayMethod::Push, growing one backing array: let old = arr; arr = new T[old.length * 2];
\* System.arraycopy(old, 0, arr, 0, old.length)
GrowNoCopy(arr, sarr, old, copy) ==
    <<SLet(Raw("$_old_array"), TermTy(arr), old, arr),
      SSet(sarr, "None",
           JArrayNew(JBinOp("Mul", JProp(JVarT(old, TermTy(arr)), Raw("length"), JI32),
                            JLitInt(GrowFactor)), TermTy(arr)))>>
GrowStmts(arr, sarr, old, copy) ==
    <<SLet(Raw("$_old_array"), TermTy(arr), old, arr),
      SSet(sarr, "None",
           JArrayNew(JBinOp("Mul", JProp(JVarT(old, TermTy(arr)), Raw("length"), JI32),
                            JLitInt(GrowFactor)), TermTy(arr))),
      SMultiCall(None, copy,
                 <<JVarT(old, TermTy(arr)), JLitInt(0), arr, JLitInt(0),
                   JProp(JVarT(old, TermTy(arr)), Raw("length"), JI32)>>, <<>>)>>

\* the loop of ArrayMethod::Push over arrs.zip(x): block grows the arrays,
\* block2 stores the components of x
LowerPushComps(arrs, xs, len, j, c, block, block2) ==
    IF j > Min(Len(arrs), Len(xs)) \/ c.panic # ""
    THEN [c |-> c, block |-> block, block2 |-> block2]
    ELSE IF ToLval(arrs[j]).tag = "None"
    THEN [c |-> [c EXCEPT !.panic = "push() requires an lvalue"],
          block |-> block, block2 |-> block2]
    ELSE LowerPushComps(arrs, xs, len, j + 1, Bump(c),
             block \o GrowStmts(arrs[j], ToLval(arrs[j]), <<FreshId(c), FALSE>>,
                                CxtPredef(c, "ArrayCopy")),
             Append(block2, SSet(LIdx(ToLval(arrs[j]), JBinOp("Sub", len, JLitInt(1))),
                                 "None", xs[j])))

\* ArrayMethod::Len
LowerLen(arrs, len, c) == [terms |-> One(len), c |-> c]
\* ArrayMethod::Clear
LowerClear(arrs, len, c) ==
    IF ToLval(len).tag = "None" THEN Panic(c, "clear() requires an lvalue")
    ELSE [terms |-> MEmpty, c |-> PushStmt(c, SSet(ToLval(len), "None", JLitInt(0)))]
\* ArrayMethod::Pop
LowerPopKeep(arrs, len, c) ==
    IF ToLval(len).tag = "None" THEN Panic(c, "pop() requires an lvalue")
    ELSE [terms |-> Tuple([j \in 1..Len(arrs) - 1 |-> JIndex(arrs[j], len, ElemTy(arrs[j]))]),
          c |-> c]
LowerPop(arrs, len, c) ==
    IF ToLval(len).tag = "None" THEN Panic(c, "pop() requires an lvalue")
    ELSE [terms |-> Tuple([j \in 1..Len(arrs) - 1 |-> JIndex(arrs[j], len, ElemTy(arrs[j]))]),
          c |-> PushStmt(c, SSet(ToLval(len), "Sub", JLitInt(1)))]
\* ArrayMethod::Push(x): len += 1; then x is lowered; if (len > arr0.length) { grow };
\* arr[len - 1] = x for every component
LowerPush(t, arrs, len, c) ==
    IF ToLval(len).tag = "None" THEN Panic(c, "push() requires an lvalue")
    ELSE LET rx == LowerTerm(t.x, PushStmt(c, SSet(ToLval(len), "Add", JLitInt(1))))
             x == ToVec(rx.terms)
             lp == LowerPushComps(arrs, x, len, 1, rx.c, <<>>, <<>>)
         IN  IF rx.c.panic # "" THEN Panic(rx.c, rx.c.panic)
             ELSE IF Len(x) # Len(arrs) - 1 THEN Panic(rx.c, "assertion failed")
             ELSE IF Len(arrs) = 1 THEN [terms |-> MEmpty, c |-> rx.c]
             ELSE IF lp.c.panic # "" THEN Panic(lp.c, lp.c.panic)
             ELSE [terms |-> MEmpty,
                   c |-> [lp.c EXCEPT !.block =
                            @ \o <<SIf(JBinOp("Gt", len, JProp(arrs[1], Raw("length"), JI32)),
                                       lp.block, <<>>)>>
                              \o lp.block2]]

\* Term::ArrayMethod(arr, m): the last term of arr is the length
LowerArrayMethod(t, c0) ==
    LET r == LowerTerm(t.arr, c0)
        arrs == ToVec(r.terms)
    IN  IF r.c.panic # "" THEN Panic(r.c, r.c.panic)
        ELSE IF Len(arrs) = 0 THEN Panic(r.c, "unwrap on None")
        ELSE CASE t.m = "Len" -> LowerLen(arrs, arrs[Len(arrs)], r.c)
               [] t.m = "Clear" -> LowerClear(arrs, arrs[Len(arrs)], r.c)
               [] t.m = "Pop" -> LowerPop(arrs, arrs[Len(arrs)], r.c)
               [] t.m = "Push" -> LowerPush(t, arrs, arrs[Len(arrs)], r.c)

\* Term::Call(o, f, a)
LowerCall(t, c) ==
    LET fn_id == CxtFun(c, t.f)
        ro == IF t.o.tag = "None" THEN [terms |-> MEmpty, c |-> c]
              ELSE LowerTerm(t.o, c)
        o == IF t.o.tag = "None" THEN None ELSE ro.terms.v[1]
        ra == LowerList(t.a, 1, ro.c)
        c1 == ra.c
        rtys == c1.fn_ret_tys[fn_id]
    IN  IF c1.panic # "" THEN Panic(c1, c1.panic)
        ELSE IF t.o.tag # "None" /\ MLen(ro.terms) # 1
        THEN Panic(c1, "backend: one object required")
        ELSE IF rtys.one /\ rtys.v[1][1] = "Array"
        THEN LET ty == rtys.v[1]
                 arr == <<FreshId(c1), FALSE>>
                 len == JProp(JVarT(arr, ty), Raw("length"), JI32)
             IN  [terms |-> Tuple(<<JVarT(arr, ty), len>>),
                  c |-> PushStmt(Bump(c1),
                           SLet(Raw("$_java_array"), ty, arr,
                                JCall(o, fn_id, ra.terms, ty)))]
        ELSE IF rtys.one
        THEN [terms |-> One(JCall(o, fn_id, ra.terms, rtys.v[1])), c |-> c1]
        ELSE LET cr == FreshLocals(<<"raw", Stem(t.f), "$_call_ret">>, rtys.v, 1, c1, <<>>)
             IN  [terms |-> Tuple(LocalTerms(cr.vars)),
                  c |-> PushStmt(cr.c, SMultiCall(o, fn_id, ra.terms, cr.vars))]

\* a term that is not simple is stored in a fresh local, which is used instead
SpillTerm(raw, x, c) ==
    [x |-> JVarT(<<FreshId(c), FALSE>>, TermTy(x)),
     c |-> PushStmt(Bump(c), SLet(Raw(raw), TermTy(x), <<FreshId(c), FALSE>>, x))]
Unspilled(x, c) == [x |-> x, c |-> c]

\* Term::Member(x, m): one property access per component of the member; the
\* object is stored in a local first if it is read more than once
MemberProps(m, sp) ==
    [terms |-> [m EXCEPT !.v = [i \in 1..Len(m.v) |->
                                   JProp(sp.x, <<"var", m.v[i]>>, sp.c.tys[m.v[i]])]],
     c |-> sp.c]
MemberOf(m, rx) ==
    IF rx.c.panic # "" THEN Panic(rx.c, rx.c.panic)
    ELSE IF MLen(m) > 1
    THEN MemberProps(m, IF Simple(rx.terms.v[1]) THEN Unspilled(rx.terms.v[1], rx.c)
                        ELSE SpillTerm("$_class", rx.terms.v[1], rx.c))
    ELSE IF MLen(m) # 1 THEN Panic(rx.c, "backend: one object required")
    ELSE [terms |-> One(JProp(rx.terms.v[1], <<"var", m.v[1]>>, rx.c.tys[m.v[1]])),
          c |-> rx.c]
LowerMember(t, c) == MemberOf(CxtVar(c, t.m), OneOf(LowerTerm(t.x, c)))

\* Term::ArrayIdx(arr, idx): every backing array is read at the index; the
\* index is stored in a local first if it is read more than once
IdxTerms(arrs, sp) ==
    IF \E j \in 1..(Len(arrs) - 1) : TermTy(arrs[j])[1] # "Array"
    THEN Panic(sp.c, "unreachable")
    ELSE [terms |-> Tuple([j \in 1..(Len(arrs) - 1) |->
                              JIndex(arrs[j], sp.x, ElemTy(arrs[j]))]),
          c |-> sp.c]
IdxOf(arrs, ri) ==
    IF ri.c.panic # "" THEN Panic(ri.c, ri.c.panic)
    ELSE IF Len(arrs) = 0 THEN Panic(ri.c, "attempt to subtract with overflow")
    ELSE IdxTerms(arrs, IF Len(arrs) - 1 > 1 /\ ~Simple(ri.terms.v[1])
                        THEN SpillTerm("$_idx", ri.terms.v[1], ri.c)
                        ELSE Unspilled(ri.terms.v[1], ri.c))
IdxArr(t, ra) == IdxOf(ToVec(ra.terms), OneOf(LowerTerm(t.idx, ra.c)))
LowerArrayIdx(t, c) == IdxArr(t, LowerTerm(t.arr, c))

\* Term::Set(l, op, x) on LValue::Var, LValue::Idx and LValue::Member
SetVars(v, op, rx) ==
    IF rx.c.panic # "" THEN Panic(rx.c, rx.c.panic)
    ELSE [terms |-> MEmpty,
          c |-> [rx.c EXCEPT !.block =
                   @ \o [j \in 1..Min(Len(v), MLen(rx.terms)) |->
                            SSet(LVar(v[j]), op, rx.terms.v[j])]]]
SetIdxs(v, op, idx, rx) ==
    IF rx.c.panic # "" THEN Panic(rx.c, rx.c.panic)
    ELSE [terms |-> MEmpty,
          c |-> [rx.c EXCEPT !.block =
                   @ \o [j \in 1..Min(Len(v), MLen(rx.terms)) |->
                            SSet(LIdx(LVar(v[j]), idx), op, rx.terms.v[j])]]]
SetIdxAt(t, v, sp) == SetIdxs(v, t.op, sp.x, LowerTerm(t.x, sp.c))
SetIdx(t, v, ri) ==
    IF ri.c.panic # "" THEN Panic(ri.c, ri.c.panic)
    ELSE SetIdxAt(t, v, IF Simple(ri.terms.v[1]) THEN Unspilled(ri.terms.v[1], ri.c)
                        ELSE SpillTerm("$_idx", ri.terms.v[1], ri.c))
\* a store to a member of any number of components, through its first
SetPropFirst(t, obj, rx) ==
    IF rx.c.panic # "" THEN Panic(rx.c, rx.c.panic)
    ELSE [terms |-> MEmpty,
          c |-> PushStmt(rx.c, SSet(LProp(obj, <<"var", CxtVar(rx.c, t.l.m).v[1]>>),
                                    t.op, rx.terms.v[1]))]
SetProp(t, obj, rx) ==
    IF rx.c.panic # "" THEN Panic(rx.c, rx.c.panic)
    ELSE IF MLen(CxtVar(rx.c, t.l.m)) # 1 THEN Panic(rx.c, "backend: one object required")
    ELSE [terms |-> MEmpty,
          c |-> PushStmt(rx.c, SSet(LProp(obj, <<"var", CxtVar(rx.c, t.l.m).v[1]>>),
                                    t.op, rx.terms.v[1]))]
SetMember(t, rv) ==
    IF rv.c.panic # "" THEN Panic(rv.c, rv.c.panic)
    ELSE SetProp(t, rv.terms.v[1], OneOf(LowerTerm(t.x, rv.c)))
LowerSet(t, c) ==
    CASE t.l.tag = "Var" -> SetVars(ToVec(CxtVar(c, t.l.v)), t.op, LowerTerm(t.x, c))
      [] t.l.tag = "Idx" ->
            SetIdx(t, ToVec(CxtVar(c, t.l.v)), OneOf(LowerTerm(t.l.idx, c)))
      [] t.l.tag = "Member" -> SetMember(t, OneOf(LowerTerm(t.l.v, c)))

\* Term::BinOp(op, a, b)
LowerBinOp(t, c) ==
    LET ra == OneOf(LowerTerm(t.a, c))
        rb == OneOf(LowerTerm(t.b, ra.c))
    IN  IF rb.c.panic # "" THEN Panic(rb.c, rb.c.panic)
        ELSE [terms |-> One(JBinOp(t.op, ra.terms.v[1], rb.terms.v[1])), c |-> rb.c]

\* Term::Block(v, e)
LowerStmts(v, i, c) ==
    IF i > Len(v) \/ c.panic # "" THEN c ELSE LowerStmts(v, i + 1, LowerStmt(v[i], c))
LowerBlock(t, c) ==
    LET r == IF t.e.tag = "None"
             THEN [terms |-> MEmpty, c |-> LowerStmts(t.v, 1, CxtPush(c))]
             ELSE LowerTerm(t.e, LowerStmts(t.v, 1, CxtPush(c)))
    IN  IF r.c.panic # "" THEN Panic(r.c, r.c.panic)
        ELSE [terms |-> r.terms, c |-> CxtPop(r.c)]

\* a branch of an if or a match is lowered: store its value in the result
\* locals and take the statements of the branch off the block
CloseBranch(lvars, r) ==
    CxtPopBlock([r.c EXCEPT !.block = @ \o LocalSets(lvars, ToVec(r.terms))])

\* an if whose result locals are declared after the If statement
LowerIfLate(t, c) ==
    LET rc == OneOf(LowerTerm(t.c, c))
        ra == LowerTerm(t.a, CxtPushBlock(rc.c))
        lv == FreshLocals(<<"raw", "_then$">>, TermTys(ToVec(ra.terms)), 1, ra.c, <<>>)
        pa == CloseBranch(lv.vars, [terms |-> ra.terms, c |-> lv.c])
        pb == IF t.b.tag = "None" THEN [stmts |-> <<>>, c |-> pa.c]
              ELSE CloseBranch(lv.vars, LowerTerm(t.b, CxtPushBlock(pa.c)))
    IN  IF rc.c.panic # "" THEN Panic(rc.c, rc.c.panic)
        ELSE IF ra.c.panic # "" THEN Panic(ra.c, ra.c.panic)
        ELSE IF pb.c.panic # "" THEN Panic(pb.c, pb.c.panic)
        ELSE [terms |-> Tuple(LocalTerms(lv.vars)),
              c |-> [pb.c EXCEPT !.block =
                       @ \o <<SIf(rc.terms.v[1], pa.stmts, pb.stmts)>> \o LocalLets(lv.vars)]]
\* Term::If(cond, a, b): the result locals are allocated from the type of the
\* then-branch, declared before the if, and stored into at the end of each branch
LowerIf(t, c) ==
    LET rc == OneOf(LowerTerm(t.c, c))
        ra == LowerTerm(t.a, CxtPushBlock(rc.c))
        lv == FreshLocals(<<"raw", "_then$">>, TermTys(ToVec(ra.terms)), 1, ra.c, <<>>)
        pa == CloseBranch(lv.vars, [terms |-> ra.terms, c |-> lv.c])
        pb == IF t.b.tag = "None" THEN [stmts |-> <<>>, c |-> pa.c]
              ELSE CloseBranch(lv.vars, LowerTerm(t.b, CxtPushBlock(pa.c)))
    IN  IF rc.c.panic # "" THEN Panic(rc.c, rc.c.panic)
        ELSE IF ra.c.panic # "" THEN Panic(ra.c, ra.c.panic)
        ELSE IF pb.c.panic # "" THEN Panic(pb.c, pb.c.panic)
        ELSE [terms |-> Tuple(LocalTerms(lv.vars)),
              c |-> [pb.c EXCEPT !.block =
                       @ \o LocalLets(lv.vars) \o <<SIf(rc.terms.v[1], pa.stmts, pb.stmts)>>]]

\* Term::Variant(tid, s, v)
VariantSetsSwapped(term, variant, vals) ==
    [n \in 1..Len(vals) |->
        SSet(LProp(term, RawEnum(variant, n - 1)), "None", vals[Len(vals) + 1 - n])]
VariantSets(term, variant, vals) ==
    [n \in 1..Len(vals) |-> SSet(LProp(term, RawEnum(variant, n - 1)), "None", vals[n])]
VariantNew(t, class, wrapper, var, c) ==
    PushStmt(PushStmt([Bump(c) EXCEPT !.tys = Put(@, var, JClassTy(wrapper))],
                      SLet(Raw("$_variant"), JClassTy(wrapper), var, JClassNew(wrapper, <<>>))),
             SSet(LProp(JVarT(var, JClassTy(wrapper)), Raw("$type")), "None",
                  JVariant(class, t.s)))
LowerVariant(t, c) ==
    LET class == CxtClass(c, t.tid)
        var == <<FreshId(c), FALSE>>
        term == JVarT(var, JClassTy(c.enum_wrappers[class]))
        r == LowerList(t.v, 1, VariantNew(t, class, c.enum_wrappers[class], var, c))
    IN  IF class \in DOMAIN c.enum_wrappers
        THEN IF r.c.panic # "" THEN Panic(r.c, r.c.panic)
             ELSE [terms |-> One(term),
                   c |-> [r.c EXCEPT !.block = @ \o VariantSets(term, t.s, r.terms)]]
        ELSE IF Len(t.v) # 0 THEN Panic(c, "assertion failed")
        ELSE [terms |-> One(JVariant(class, t.s)), c |-> c]

\* Term::Match, the captures of one branch: one local per lowered component,
\* read from the field _enum$<variant>$<n> of the scrutinee
CaptureVars(variant, s, tys, j, n, x, c, acc) ==
    IF j > Len(tys) THEN [c |-> [c EXCEPT !.vars = Append(@, <<s, Tuple(acc)>>)], n |-> n]
    ELSE CaptureVars(variant, s, tys, j + 1, n + 1, x,
             PushStmt([Bump(c) EXCEPT !.tys = Put(@, <<FreshId(c), Public(s)>>, tys[j])],
                      SLet(Raw(Stem(SymPath(s))), tys[j], <<FreshId(c), Public(s)>>,
                           JProp(x, RawEnum(variant, n), tys[j]))),
             Append(acc, <<FreshId(c), Public(s)>>))
MatchCaptures(variant, caps, i, n, x, c) ==
    IF i > Len(caps) THEN c
    ELSE LET r == CaptureVars(variant, caps[i][1], ToVec(TypeLower(caps[i][2], c)),
                              1, n, x, c, <<>>)
         IN  MatchCaptures(variant, caps, i + 1, r.n, x, r.c)

\* Term::Match, the loop over the branches (variant, captures, body); lvars is
\* None until the first branch has been lowered
MatchNext(branches, i, x, v, default, lvars, pb) ==
    IF branches[i][1].tag = "None"
    THEN MatchBranches(branches, i + 1, x, pb.c, Some(lvars), v, pb.stmts)
    ELSE MatchBranches(branches, i + 1, x, pb.c, Some(lvars),
                       Append(v, <<branches[i][1].x, pb.stmts>>), default)
MatchClose(branches, i, x, v, default, rb, lv) ==
    MatchNext(branches, i, x, v, default, lv.vars,
              CloseBranch(lv.vars, [terms |-> rb.terms, c |-> lv.c]))
MatchBody(branches, i, x, lvars, v, default, rb) ==
    IF rb.c.panic # ""
    THEN [c |-> rb.c, vars |-> lvars, v |-> v, default |-> default]
    ELSE MatchClose(branches, i, x, v, default, rb,
             IF lvars.tag = "None"
             THEN FreshLocals(<<"raw", "_then$">>, TermTys(ToVec(rb.terms)), 1, rb.c, <<>>)
             ELSE [c |-> rb.c, vars |-> lvars.x])
MatchBranches(branches, i, x, c, lvars, v, default) ==
    IF i > Len(branches) \/ c.panic # ""
    THEN [c |-> c, vars |-> lvars, v |-> v, default |-> default]
    ELSE MatchBody(branches, i, x, lvars, v, default,
             LowerTerm(branches[i][3],
                 IF branches[i][1].tag = "None" THEN CxtPushBlock(c)
                 ELSE MatchCaptures(branches[i][1].x, branches[i][2], 1, 0, x,
                                    CxtPushBlock(c))))

\* Term::Match(tid, x, branches): with a wrapper the switch is on x.$type, and
\* an x that is not simple is first stored in a fresh local
MatchSpill(x, c) == PushStmt(Bump(c), SLet(Raw("$_scrutinee"), TermTy(x), <<FreshId(c), FALSE>>, x))
MatchScrut(class, wrapped, x) == IF wrapped THEN JProp(x, Raw("$type"), JClassTy(class)) ELSE x
MatchEnd(class, x, m) ==
    IF m.c.panic # "" THEN Panic(m.c, m.c.panic)
    ELSE IF m.vars.tag = "None" THEN Panic(m.c, "unwrap on None")
    ELSE [terms |-> Tuple(LocalTerms(m.vars.x)),
          c |-> PushStmt([Bump(m.c) EXCEPT !.block = @ \o LocalLets(m.vars.x)],
                         SSwitch(FreshId(m.c),
                                 MatchScrut(class, class \in DOMAIN m.c.enum_wrappers, x),
                                 m.v, m.default))]
MatchStart(t, class, rx) ==
    IF class \in DOMAIN rx.c.enum_wrappers /\ ~Simple(rx.terms.v[1])
    THEN MatchEnd(class, JVarT(<<FreshId(rx.c), FALSE>>, TermTy(rx.terms.v[1])),
                  MatchBranches(t.branches, 1,
                                JVarT(<<FreshId(rx.c), FALSE>>, TermTy(rx.terms.v[1])),
                                MatchSpill(rx.terms.v[1], rx.c), None, <<>>, <<>>))
    ELSE MatchEnd(class, rx.terms.v[1],
                  MatchBranches(t.branches, 1, rx.terms.v[1], rx.c, None, <<>>, <<>>))
MatchOn(t, rx) ==
    IF rx.c.panic # "" THEN Panic(rx.c, rx.c.panic)
    ELSE MatchStart(t, CxtClass(rx.c, t.tid), rx)
LowerMatch(t, c) == MatchOn(t, OneOf(LowerTerm(t.x, c)))

LowerTerm(t, c) ==
    IF c.panic # "" THEN [terms |-> MEmpty, c |-> c]
    ELSE CASE t.tag = "Var" ->
            LET var == CxtVar(c, t.s)
            IN  [terms |-> [var EXCEPT !.v = [i \in 1..Len(var.v) |->
                                                 JVarT(var.v[i], c.tys[var.v[i]])]],
                 c |-> c]
      [] t.tag = "Lit" -> [terms |-> One(JLitInt(t.i)), c |-> c]
      [] t.tag = "Return" ->
            LET r == IF t.x.tag = "None" THEN [terms |-> MEmpty, c |-> c]
                     ELSE LowerTerm(t.x, c)
            IN  [terms |-> MEmpty,
                 c |-> PushStmt(r.c, SRet(r.c.current_fn, ToVec(r.terms)))]
      [] t.tag = "Tuple" ->
            LET r == LowerList(t.v, 1, c)
            IN  [terms |-> Tuple(r.terms), c |-> r.c]
      [] t.tag = "Array" /\ Len(t.v) = 0 ->
            LET ty == ToVec(TypeLower(t.ty, c))
            IN  [terms |-> Tuple([i \in 1..Len(ty) |-> JArrayLit(<<>>, JArray(ty[i]))]
                                 \o <<JLitInt(0)>>),
                 c |-> c]
      [] t.tag = "Array" /\ Len(t.v) > 0 -> LowerArrayLit(t, c)
      [] t.tag = "ArrayMethod" -> LowerArrayMethod(t, c)
      [] t.tag = "Call" -> LowerCall(t, c)
      [] t.tag = "BinOp" -> LowerBinOp(t, c)
      [] t.tag = "Block" -> LowerBlock(t, c)
      [] t.tag = "If" -> LowerIf(t, c)
      [] t.tag = "Variant" -> LowerVariant(t, c)
      [] t.tag = "Match" -> LowerMatch(t, c)
      [] t.tag \in {"Break", "Continue"} -> LowerJump(c, t.tag, BlockLabel(c))
      [] t.tag = "Member" -> LowerMember(t, c)
      [] t.tag = "ArrayIdx" -> LowerArrayIdx(t, c)
      [] t.tag = "Set" -> LowerSet(t, c)

(***************************************************************************)
(* Statement::lower.                                                       *)
(***************************************************************************)
RECURSIVE LetVars(_, _, _, _, _, _)
\* the loop of Statement::Let over x.zip(t): one fresh local per component
LetVars(n, xs, ts, i, c, acc) ==
    IF i > Min(Len(xs), Len(ts)) THEN [c |-> c, vars |-> acc]
    ELSE LET var == <<FreshId(c), Public(n)>>
             c1 == [Bump(c) EXCEPT !.tys = Put(@, var, ts[i])]
         IN  LetVars(n, xs, ts, i + 1,
                     PushStmt(c1, SLet(Raw(Stem(SymPath(n))), ts[i], var, xs[i])),
                     Append(acc, var))

\* Statement::Term: every term the expression lowered to becomes a statement
StmtTerm(r) ==
    [r.c EXCEPT !.block = @ \o [i \in 1..MLen(r.terms) |-> STerm(r.terms.v[i])]]
\* Statement::Let: the locals, then the binding of the name
StmtLetBind(s, lv) == [lv.c EXCEPT !.vars = Append(@, <<s.n, Tuple(lv.vars)>>)]
StmtLet(s, r) ==
    IF r.c.panic # "" THEN r.c
    ELSE StmtLetBind(s, LetVars(s.n, ToVec(r.terms), ToVec(TypeLower(s.ty, r.c)),
                                1, r.c, <<>>))

\* the end of a loop statement: the statements of the body leave the block
LoopBody(body) == IF body.panic # "" THEN [stmts |-> <<>>, c |-> body] ELSE CxtPopBlock(body)

\* Statement::While(cond, block)
WhileClose(k, cond, p) ==
    IF p.c.panic # "" THEN p.c ELSE PushStmt(p.c, SWhile(k, cond, p.stmts))
WhileLoop(s, k, rc) ==
    IF rc.c.panic # "" THEN rc.c
    ELSE WhileClose(k, rc.terms.v[1],
                    LoopBody(LowerStmts(s.block, 1, CxtPushLoop(Bump(rc.c), k))))
WhileCond(s, rc) == WhileLoop(s, FreshId(rc.c), rc)
LowerWhile(s, c) == WhileCond(s, OneOf(LowerTerm(s.c, c)))

\* Statement::For over ForIter::Range(a, b)
RangeClose(s, k, v, a, b, p) ==
    IF p.c.panic # "" THEN p.c
    ELSE PushStmt(p.c, SRangeFor(k, Raw(Stem(SymPath(s.n))), v, a, b, p.stmts))
RangeLoop(s, k, v, a, b, c) ==
    RangeClose(s, k, v, a, b, LoopBody(LowerStmts(s.block, 1, CxtPushLoop(Bump(c), k))))
RangeVar(s, v, a, rb) ==
    IF rb.c.panic # "" THEN rb.c
    ELSE RangeLoop(s, FreshId(rb.c) + 1, v, a, rb.terms.v[1],
                   [Bump(rb.c) EXCEPT !.tys = Put(@, v, JI32),
                                      !.vars = Append(@, <<s.n, One(v)>>)])
RangeEnd(s, ra, rb) == RangeVar(s, <<FreshId(rb.c), Public(s.n)>>, ra.terms.v[1], rb)
RangeStart(s, ra) ==
    IF ra.c.panic # "" THEN ra.c ELSE RangeEnd(s, ra, OneOf(LowerTerm(s.iter.b, ra.c)))
LowerForRange(s, c) == RangeStart(s, OneOf(LowerTerm(s.iter.a, c)))

\* the loop over arr.zip(t) of ForIter::Array: one local per backing array,
\* read at the index; the loop is left at the first component of type I32
ForLets(n, arr, tys, ix, i, c, vs) ==
    IF i > Len(arr) \/ tys[i] = JI32 THEN [c |-> c, vars |-> vs]
    ELSE IF tys[i][1] # "Array" THEN [c |-> [c EXCEPT !.panic = "unreachable"], vars |-> vs]
    ELSE ForLets(n, arr, tys, ix, i + 1,
                 PushStmt([Bump(c) EXCEPT !.tys = Put(@, <<FreshId(c), Public(n)>>, tys[i][2])],
                          SLet(Raw(Stem(SymPath(n))), tys[i][2], <<FreshId(c), Public(n)>>,
                               JIndex(arr[i], JVarT(ix, JI32), tys[i][2]))),
                 Append(vs, <<FreshId(c), Public(n)>>))

\* Statement::For over ForIter::Array(arr)
ArrayClose(s, k, ix, len, p) ==
    IF p.c.panic # "" THEN p.c
    ELSE PushStmt(p.c, SRangeFor(k, Raw(Stem(SymPath(s.n))), ix, JLitInt(0), len, p.stmts))
ArrayBody(s, lv) ==
    IF lv.c.panic # "" THEN lv.c
    ELSE LowerStmts(s.block, 1, [lv.c EXCEPT !.vars = Append(@, <<s.n, Tuple(lv.vars)>>)])
ArrayLoop(s, arr, ix, k, c) ==
    ArrayClose(s, k, ix, arr[Len(arr)],
               LoopBody(ArrayBody(s, ForLets(s.n, arr, TermTys(arr), ix, 1,
                                             CxtPushLoop(Bump(c), k), <<>>))))
ArrayIx(s, arr, ix, c) ==
    ArrayLoop(s, arr, ix, FreshId(c) + 1, [Bump(c) EXCEPT !.tys = Put(@, ix, JI32)])
ArrayStart(s, ra) ==
    IF ra.c.panic # "" THEN ra.c
    ELSE ArrayIx(s, ToVec(ra.terms), <<FreshId(ra.c), FALSE>>, ra.c)
LowerForArray(s, c) == ArrayStart(s, LowerTerm(s.iter.arr, c))

LowerStmt(s, c) ==
    CASE s.tag = "Term" -> StmtTerm(LowerTerm(s.x, c))
      [] s.tag = "Let" -> StmtLet(s, LowerTerm(s.x, c))
      [] s.tag = "While" -> LowerWhile(s, c)
      [] s.tag = "For" /\ s.iter.tag = "Range" -> LowerForRange(s, c)
      [] s.tag = "For" /\ s.iter.tag = "Array" -> LowerForArray(s, c)

(***************************************************************************)
(* declare_p1 and declare_p2.  Items:                                      *)
(*   [tag "Fn", id, args, ret_ty, body, public]                            *)
(*   [tag "ExternFn", id, ret_ty, mapping]                                 *)
(*   [tag "Enum", c, variants, ext, members, methods]                      *)
(*   [tag "Let", s, ty, x]                                                 *)
(*   [tag "Class", c, members, methods], a member being <<s, ty, x>>       *)
(* A mapping is <<id, path, mangle>>.                                      *)
(***************************************************************************)
IFn(id, args, ret_ty, body, public) ==
    [tag |-> "Fn", id |-> id, args |-> args, ret_ty |-> ret_ty, body |-> body,
     public |-> public]
IExternFn(id, ret_ty, mapping) ==
    [tag |-> "ExternFn", id |-> id, ret_ty |-> ret_ty, mapping |-> mapping]
IEnum(c, variants, ext, members, methods) ==
    [tag |-> "Enum", c |-> c, variants |-> variants, ext |-> ext,
     members |-> members, methods |-> methods]
ILet(s, ty, x) == [tag |-> "Let", s |-> s, ty |-> ty, x |-> x]
IClass(c, members, methods) ==
    [tag |-> "Class", c |-> c, members |-> members, methods |-> methods]

\* the body of the loop of declare_p1
P1ItemNoWrapper(i, c) ==
    IF i.tag \in {"ExternClass", "Class", "Enum"}
    THEN [Bump(c) EXCEPT !.types = Append(@, <<i.c, FreshId(c)>>)]
    ELSE c
P1Item(i, c) ==
    IF i.tag \in {"ExternClass", "Class"}
    THEN [Bump(c) EXCEPT !.types = Append(@, <<i.c, FreshId(c)>>)]
    ELSE IF i.tag = "Enum"
    THEN LET class == FreshId(c)
             c1 == [Bump(c) EXCEPT !.types = Append(@, <<i.c, class>>)]
         IN  IF \E j \in 1..Len(i.variants) : Len(i.variants[j][2]) # 0
             THEN [Bump(c1) EXCEPT !.enum_wrappers = Put(@, class, FreshId(c1))]
             ELSE c1
    ELSE c

RECURSIVE DeclareP1(_, _, _)
DeclareP1(code, n, c) ==
    IF n > Len(code) THEN c ELSE DeclareP1(code, n + 1, P1Item(code[n], c))

\* one fresh variable per component of a lowered member or top-level let
RECURSIVE DeclVars(_, _, _, _, _)
DeclVars(sym, tys, i, st, acc) ==
    IF i > Len(tys)
    THEN [st EXCEPT !.c.vars = Append(@, <<sym, Tuple(acc)>>)]
    ELSE LET var == <<FreshId(st.c), Public(sym)>>
         IN  DeclVars(sym, tys, i + 1,
                 [st EXCEPT !.c = [Bump(st.c) EXCEPT !.tys = Put(@, var, tys[i])],
                            !.mappings = Append(@, <<var[1], SymPath(sym), ~var[2]>>)],
                 Append(acc, var))

RECURSIVE DeclMembers(_, _, _), DeclMethods(_, _, _)
DeclMembers(members, i, st) ==
    IF i > Len(members) THEN st
    ELSE DeclMembers(members, i + 1,
             DeclVars(members[i][1], ToVec(TypeLower(members[i][2], st.c)), 1, st, <<>>))
DeclMethods(methods, i, st) ==
    IF i > Len(methods) THEN st
    ELSE LET f == methods[i]
             item == FreshId(st.c)
             c1 == [Bump(st.c) EXCEPT !.fn_ids = Append(@, <<f.id, item>>)]
             c2 == [c1 EXCEPT !.fn_ret_tys = Put(@, item, TypeLower(f.ret_ty, c1))]
         IN  DeclMethods(methods, i + 1,
                 [st EXCEPT !.c = c2,
                            !.mappings = Append(@, <<item, f.id, ~f.public>>)])

\* a conversion that takes the first array of a shape of any length
ExternRetAny(ret) ==
    IF MLen(ret) > 1
    THEN IF ret.v[1][1] = "Array"
         THEN [ret |-> One(ret.v[1]), panic |-> ""]
         ELSE [ret |-> Tuple(ret.v), panic |-> "Extern function can't return tuple"]
    ELSE [ret |-> ret, panic |-> ""]
\* the conversion declare_p2 applies to the return shape of an extern function
ExternRet(ret) ==
    IF MLen(ret) > 1
    THEN IF MLen(ret) = 2 /\ ret.v[1][1] = "Array"
         THEN [ret |-> One(ret.v[1]), panic |-> ""]
         ELSE [ret |-> Tuple(ret.v), panic |-> "Extern function can't return tuple"]
    ELSE [ret |-> ret, panic |-> ""]

\* the body of the loop of declare_p2 over the items
P2Item(i, st) ==
    CASE i.tag \in {"Fn", "ExternFn"} ->
            LET ext == i.tag = "ExternFn"
                m == IF ext THEN LPath(i.mapping) ELSE i.id
                public == IF ext THEN TRUE ELSE i.public
                item == FreshId(st.c)
                c1 == [Bump(st.c) EXCEPT !.fn_ids = Append(@, <<i.id, item>>)]
                lowered == TypeLower(i.ret_ty, c1)
                fixed == IF ext THEN ExternRet(lowered)
                         ELSE [ret |-> lowered, panic |-> ""]
            IN  IF fixed.panic # "" THEN [st EXCEPT !.c = [c1 EXCEPT !.panic = fixed.panic]]
                ELSE [st EXCEPT !.c = [c1 EXCEPT !.fn_ret_tys = Put(@, item, fixed.ret)],
                                !.mappings = Append(@, <<item, m, ~public>>)]
      [] i.tag = "Enum" ->
            LET class == CxtClass(st.c, i.c)
            IN  IF i.ext
                THEN DeclMembers(i.members, 1,
                         [st EXCEPT !.mappings = Append(@, <<class, LPath(Stem(i.c)), FALSE>>)])
                ELSE LET m1 == Append(st.mappings, <<class, i.c, TRUE>>)
                         m2 == IF class \in DOMAIN st.c.enum_wrappers
                               THEN Append(m1, <<st.c.enum_wrappers[class], i.c, TRUE>>)
                               ELSE m1
                     IN  DeclMethods(i.methods, 1, [st EXCEPT !.mappings = m2])
      [] i.tag = "Class" ->
            DeclMembers(i.members, 1,
                DeclMethods(i.methods, 1,
                    [st EXCEPT !.mappings = Append(@, <<CxtClass(st.c, i.c), i.c, TRUE>>)]))
      [] i.tag = "Let" ->
            DeclVars(i.s, ToVec(TypeLower(i.ty, st.c)), 1, st, <<>>)
      [] i.tag = "InlineJava" -> [st EXCEPT !.java = Append(@, i.s)]

RECURSIVE P2Items(_, _, _)
P2Items(code, n, st) ==
    IF n > Len(code) \/ st.c.panic # "" THEN st
    ELSE P2Items(code, n + 1, P2Item(code[n], st))

\* declare_p2: the predefined intrinsic first, then the items; the result is
\* the context and the IRMod
DeclareP2(code, c, out_class) ==
    LET fn_id == FreshId(c)
        c1 == [Bump(c) EXCEPT !.fn_ret_tys = Put(@, fn_id, MEmpty),
                              !.predefs = Append(@, <<"ArrayCopy", fn_id>>)]
        st == P2Items(code, 1,
                  [c |-> c1,
                   mappings |-> <<<<fn_id, LPath("System.arraycopy"), FALSE>>>>,
                   java |-> <<>>])
    IN  [c |-> st.c,
         mod |-> [name |-> out_class, code |-> code, mappings |-> st.mappings,
                  java |-> st.java, out_class |-> out_class]]

(***************************************************************************)
(* Fn::lower.                                                              *)
(***************************************************************************)
RECURSIVE FnArgVars(_, _, _, _, _, _), FnArgs(_, _, _, _)
FnArgVars(name, tys, i, c, args, vs) ==
    IF i > Len(tys) THEN [c |-> c, args |-> args, vs |-> vs]
    ELSE LET var == <<FreshId(c), Public(name)>>
         IN  FnArgVars(name, tys, i + 1, [Bump(c) EXCEPT !.tys = Put(@, var, tys[i])],
                       Append(args, <<Stem(SymPath(name)), var, tys[i]>>),
                       Append(vs, var))
FnArgs(fargs, i, c, args) ==
    IF i > Len(fargs) THEN [c |-> c, args |-> args]
    ELSE LET r == FnArgVars(fargs[i][1], ToVec(TypeLower(fargs[i][2], c)), 1, c, args, <<>>)
         IN  FnArgs(fargs, i + 1,
                    [r.c EXCEPT !.vars = Append(@, <<fargs[i][1], Tuple(r.vs)>>)],
                    r.args)

\* the part of Fn::lower before the body: a fresh block, a scope, the arguments
FnEnter(f, c) ==
    LET fn_id == CxtFun(c, f.id)
    IN  FnArgs(f.args, 1, [CxtPush(c) EXCEPT !.block = <<>>, !.current_fn = fn_id], <<>>)

\* the part of Fn::lower after the body: the closing Ret or Term statements
FnClose(f, r) ==
    IF f.ret_ty = TUnit
    THEN [r.c EXCEPT !.block = @ \o [i \in 1..MLen(r.terms) |-> STerm(r.terms.v[i])]]
    ELSE PushStmt(r.c, SRet(r.c.current_fn, ToVec(r.terms)))

\* Fn::lower
FnPop(f, c, args, c2) ==
    [jfn |-> [name |-> Stem(f.id), fn_id |-> CxtFun(c, f.id),
              ret_tys |-> ToVec(TypeLower(f.ret_ty, c2)), args |-> args,
              body |-> c2.block, public |-> f.public],
     c |-> [CxtPop(c2) EXCEPT !.block = c.block]]
FnBody(f, c, e) == FnPop(f, c, e.args, FnClose(f, LowerTerm(f.body, e.c)))
LowerFn(f, c) == FnBody(f, c, FnEnter(f, c))

(***************************************************************************)
(* Item::lower and IRMod::codegen (the lowering loop).                     *)
(***************************************************************************)
ItemFn(r) == [r.c EXCEPT !.items = Append(@, [tag |-> "Fn", f |-> r.jfn])]
\* Item::Enum: the variants with their flattened payload types, the wrapper if one
\* is registered, the lowered methods
RECURSIVE LowerMethods(_, _, _, _)
LowerMethods(methods, i, c, acc) ==
    IF i > Len(methods) THEN [c |-> c, fns |-> acc]
    ELSE LET r == LowerFn(methods[i], c)
         IN  LowerMethods(methods, i + 1, r.c, Append(acc, r.jfn))
ItemEnum(i, class, m) ==
    [m.c EXCEPT !.items = Append(@,
        [tag |-> "Enum", class |-> class,
         variants |-> [j \in 1..Len(i.variants) |->
                          <<i.variants[j][1], TypeLowerAll(i.variants[j][2], 1, m.c)>>],
         wrapper |-> IF class \in DOMAIN m.c.enum_wrappers
                     THEN Some(m.c.enum_wrappers[class]) ELSE None,
         methods |-> m.fns])]
\* Item::Let: the variables declare_p2 made, their types and, if the let has
\* an initial value, its terms and the statements lowering them pushed
ItemLetVars(vs, tys, xs) ==
    [j \in 1..Len(tys) |-> <<vs.v[j], tys[j], IF Len(xs) = 0 THEN None ELSE xs[j]>>]
ItemLetPush(vs, b) ==
    [b.c EXCEPT !.items = Append(@, [tag |-> "Let", vars |-> vs, block |-> b.stmts])]
ItemLetDone(var, ty, x) ==
    IF x.c.panic # "" THEN x.c
    ELSE IF MLen(var) # Len(ty) \/ Len(ty) # MLen(x.terms)
    THEN [x.c EXCEPT !.panic = "assertion failed"]
    ELSE ItemLetPush(ItemLetVars(var, ty, ToVec(x.terms)), CxtPopBlock(x.c))
ItemLetSome(i, c) ==
    ItemLetDone(CxtVar(c, i.s), ToVec(TypeLower(i.ty, c)), LowerTerm(i.x, c))
ItemLet(i, c) ==
    IF i.x.tag = "None"
    THEN [c EXCEPT !.items = Append(@,
             [tag |-> "Let",
              vars |-> ItemLetVars(CxtVar(c, i.s), ToVec(TypeLower(i.ty, c)), <<>>),
              block |-> <<>>])]
    ELSE ItemLetSome(i, CxtPushBlock(c))
\* Item::Class: every member is lowered in a block of its own, then looked up;
\* the variables, the types and the terms are zipped
ClassMemberVars(m, t, xs, r, b) ==
    [c |-> b.c,
     member |->
        [vars |-> [j \in 1..(IF m[3].tag = "None" THEN Min(Len(t), Len(r))
                             ELSE Min(Len(xs), Min(Len(t), Len(r)))) |->
                      <<r[j], t[j], IF m[3].tag = "None" THEN None ELSE xs[j]>>],
         block |-> b.stmts]]
ClassMemberPopped(m, t, terms, b) ==
    ClassMemberVars(m, t, ToVec(terms), ToVec(CxtVar(b.c, m[1])), b)
ClassMemberLowered(m, t, x) ==
    IF x.c.panic # "" THEN [c |-> x.c, member |-> None]
    ELSE ClassMemberPopped(m, t, x.terms, CxtPopBlock(x.c))
ClassMember(m, c) ==
    ClassMemberLowered(m, ToVec(TypeLower(m[2], c)),
        IF m[3].tag = "None" THEN [c |-> c, terms |-> MEmpty] ELSE LowerTerm(m[3], c))
RECURSIVE ClassMembers(_, _, _, _)
ClassMembersNext(members, i, acc, r) ==
    IF r.c.panic # "" THEN [c |-> r.c, members |-> acc]
    ELSE ClassMembers(members, i + 1, r.c, Append(acc, r.member))
ClassMembers(members, i, c, acc) ==
    IF i > Len(members) \/ c.panic # "" THEN [c |-> c, members |-> acc]
    ELSE ClassMembersNext(members, i, acc, ClassMember(members[i], CxtPushBlock(c)))
ItemClassPush(class, members, fns) ==
    [fns.c EXCEPT !.items = Append(@,
        [tag |-> "Class", class |-> class, members |-> members, methods |-> fns.fns])]
ItemClass(i, c, m) ==
    IF m.c.panic # "" THEN m.c
    ELSE ItemClassPush(CxtClass(c, i.c), m.members, LowerMethods(i.methods, 1, m.c, <<>>))
ItemLower(i, c) ==
    CASE i.tag = "Fn" -> ItemFn(LowerFn(i, c))
      [] i.tag = "Let" -> ItemLet(i, c)
      [] i.tag = "Class" -> ItemClass(i, c, ClassMembers(i.members, 1, c, <<>>))
      [] i.tag = "Enum" ->
            IF i.ext THEN c
            ELSE ItemEnum(i, CxtClass(c, i.c), LowerMethods(i.methods, 1, c, <<>>))
      [] i.tag = "ExternFn" -> c

(***************************************************************************)
(* JFn::gen and JStmt::gen (Ret), as the declarations and lines they       *)
(* render.  A slot is <<fn id, i>>, rendered <fn>$_ret<i>$S.               *)
(***************************************************************************)
Void == <<"void">>
\* the public static fields declared before the function
GenSlots(f) ==
    IF Len(f.ret_tys) # 1
    THEN [i \in 1..Len(f.ret_tys) |-> [slot |-> <<f.fn_id, i - 1>>, ty |-> f.ret_tys[i]]]
    ELSE <<>>
\* the declared return type
GenRetTy(f) == IF Len(f.ret_tys) = 1 THEN f.ret_tys[1] ELSE Void
\* the lines of a Ret: return; or return x; or one store per term, then return;
GenRet(s) ==
    IF Len(s.v) = 0 THEN <<[line |-> "return"]>>
    ELSE IF Len(s.v) = 1 THEN <<[line |-> "return", x |-> s.v[1]]>>
    ELSE [i \in 1..Len(s.v) |-> [line |-> "set", slot |-> <<s.f, i - 1>>, x |-> s.v[i]]]
         \o <<[line |-> "return"]>>
\* the functions among the items, and the static fields their emission declares,
\* with the values Java gives them when the class is loaded
FnItems(items) == {items[n].f : n \in {m \in 1..Len(items) : items[m].tag = "Fn"}}
DeclaredSlots(items) ==
    UNION {{GenSlots(f)[i] : i \in 1..Len(GenSlots(f))} : f \in FnItems(items)}
GenStatics(items) ==
    [sl \in {d.slot : d \in DeclaredSlots(items)} |->
        TyNull((CHOOSE d \in DeclaredSlots(items) : d.slot = sl).ty)]
\* the emitted functions a call can reach
GenFns(items) ==
    [id \in {f.fn_id : f \in FnItems(items)} |->
        CHOOSE f \in FnItems(items) : f.fn_id = id]

\* JItem::gen (Enum): the fields of the wrapper class, public <enum> $type; and
\* public <ty> _enum$<variant>$<n>; for every payload component of every variant
RECURSIVE GenPayload(_, _)
GenPayload(variants, j) ==
    IF j > Len(variants) THEN <<>>
    ELSE [n \in 1..Len(variants[j][2]) |->
             [name |-> RawEnum(variants[j][1], n - 1), ty |-> variants[j][2][n]]]
         \o GenPayload(variants, j + 1)
GenWrapper(e) ==
    <<[name |-> Raw("$type"), ty |-> JClassTy(e.class)]>> \o GenPayload(e.variants, 1)
\* the emitted classes an object can be made of, with the values Java gives the
\* fields of a new object
GenClasses(items) ==
    [w \in {items[n].wrapper.x :
               n \in {m \in 1..Len(items) :
                         items[m].tag = "Enum" /\ items[m].wrapper.tag = "Some"}} |->
        LET e == items[CHOOSE n \in 1..Len(items) :
                          /\ items[n].tag = "Enum"
                          /\ items[n].wrapper = Some(w)]
        IN  [nm \in {GenWrapper(e)[j].name : j \in 1..Len(GenWrapper(e))} |->
                TyNull((CHOOSE fd \in {GenWrapper(e)[j] : j \in 1..Len(GenWrapper(e))} :
                            fd.name = nm).ty)]]

(***************************************************************************)
(* Gen, the name table of the emitter: id -> (path, mangle).  A Gen here is *)
(* the table, the ids a lookup has found and the ids a lookup has missed    *)
(* (self.names[&v.0] panics on those, which ends the emission).            *)
(***************************************************************************)
\* IRMod::codegen, the table merged from the mappings of the modules; the first
\* segment of a path is dropped if it is the name of the module
RECURSIVE MergeNames(_, _, _, _)
MergeNamesGreedy(mappings, i, name, names) ==
    IF i > Len(mappings) THEN names
    ELSE MergeNames(mappings, i + 1, name,
             Put(names, mappings[i][1],
                 <<SelectSeq(mappings[i][2], LAMBDA x : x # name), mappings[i][3]>>))
MergeNames(mappings, i, name, names) ==
    IF i > Len(mappings) THEN names
    ELSE MergeNames(mappings, i + 1, name,
             Put(names, mappings[i][1],
                 <<IF Len(mappings[i][2]) > 0 /\ mappings[i][2][1] = name
                   THEN Tail(mappings[i][2]) ELSE mappings[i][2],
                   mappings[i][3]>>))
GenNew(names) == [names |-> names, found |-> {}, missing |-> {}]
\* cxt.names.insert(v.0, (lpath(n), !v.1))
Insert(g, n, v) == [g EXCEPT !.names = Put(@, v[1], <<<<n>>, ~v[2]>>)]
\* name_str, fn_str, class_str of every id of a set
Lookup(g, ids) ==
    [g EXCEPT !.found = @ \cup (ids \cap DOMAIN g.names),
              !.missing = @ \cup (ids \ DOMAIN g.names)]

\* Bindings::resolve_path: the segments of a path, joined by dots
RECURSIVE ResolvePath(_)
ResolvePath(path) ==
    IF Len(path) = 0 THEN ""
    ELSE IF Len(path) = 1 THEN path[1]
    ELSE path[1] \o "." \o ResolvePath(Tail(path))
\* name_str, fn_str, class_str: format!("{}${}", s, v.0) if the flag is set
NameStrPlain(g, id) == ResolvePath(g.names[id][1])
NameStr(g, id) ==
    IF g.names[id][2] THEN ResolvePath(g.names[id][1]) \o "$" \o ToString(id)
    ELSE ResolvePath(g.names[id][1])

\* JTy::gen, Prop::gen, JTerm::gen, JLVal::gen: the ids they look up
RECURSIVE TyIds(_)
TyIds(ty) ==
    CASE ty[1] = "Class" -> {ty[2]}
      [] ty[1] = "Array" -> TyIds(ty[2])
      [] OTHER -> {}
PropIds(prop) == IF prop[1] = "var" THEN {prop[2][1]} ELSE {}
RECURSIVE TermIds(_)
TermIds(t) ==
    CASE t.tag = "Var" -> {t.v[1]}
      [] t.tag \in {"Lit", "Null", "This"} -> {}
      [] t.tag = "Not" -> TermIds(t.x)
      [] t.tag = "Call" ->
            (IF t.o.tag = "Some" THEN TermIds(t.o.x) ELSE {}) \cup {t.f}
            \cup UNION {TermIds(t.args[j]) : j \in 1..Len(t.args)}
      [] t.tag = "Prop" -> TermIds(t.obj) \cup PropIds(t.prop)
      [] t.tag = "BinOp" -> TermIds(t.a) \cup TermIds(t.b)
      [] t.tag = "Variant" -> {t.class}
      [] t.tag = "Array" ->
            (IF Len(t.v) = 0 THEN TyIds(t.ty[2]) ELSE TyIds(t.ty))
            \cup UNION {TermIds(t.v[j]) : j \in 1..Len(t.v)}
      [] t.tag = "ArrayNew" -> TyIds(t.ty[2]) \cup TermIds(t.len)
      [] t.tag = "ClassNew" ->
            {t.class} \cup UNION {TermIds(t.args[j]) : j \in 1..Len(t.args)}
      [] t.tag = "Index" -> TermIds(t.arr) \cup TermIds(t.idx)
RECURSIVE LValIds(_)
LValIds(l) ==
    CASE l.tag = "Var" -> {l.v[1]}
      [] l.tag = "Idx" -> LValIds(l.l) \cup TermIds(l.i)
      [] l.tag = "Prop" -> TermIds(l.a) \cup PropIds(l.b)

\* JStmt::gen (Let): the name is inserted, then the type, the name and the
\* initial value are rendered
GenLetKeep(s, g) ==
    Lookup(g, TyIds(s.ty) \cup {s.v[1]}
              \cup (IF s.x.tag = "None" THEN {} ELSE TermIds(s.x)))
GenLet(s, g) ==
    Lookup(Insert(g, s.n, s.v),
           TyIds(s.ty) \cup {s.v[1]} \cup (IF s.x.tag = "None" THEN {} ELSE TermIds(s.x)))
\* JStmt::gen (MultiCall): the call, then one declaration per out-binding
RECURSIVE GenRets(_, _, _, _)
GenRets(s, i, ids, g) ==
    IF i > Len(s.rets) \/ g.missing # {} THEN g
    ELSE GenRets(s, i + 1, ids,
             Lookup(Insert(g, s.rets[i][1], s.rets[i][2]),
                    TyIds(s.rets[i][3]) \cup {s.rets[i][2][1]} \cup ids))
GenMultiCall(s, g) ==
    GenRets(s, 1,
            (IF s.o.tag = "Some" THEN TyIds(TermTy(s.o.x)) ELSE {}) \cup {s.f},
            Lookup(g, (IF s.o.tag = "Some" THEN TermIds(s.o.x) ELSE {}) \cup {s.f}
                      \cup UNION {TermIds(s.args[j]) : j \in 1..Len(s.args)}))
\* JStmt::gen
RECURSIVE GenStmt(_, _), GenBlock(_, _, _), GenCases(_, _, _)
GenStmt(s, g) ==
    CASE g.missing # {} -> g
      [] s.tag = "Let" -> GenLet(s, g)
      [] s.tag = "Set" -> Lookup(g, LValIds(s.l) \cup TermIds(s.x))
      [] s.tag = "Term" -> Lookup(g, TermIds(s.x))
      [] s.tag = "Ret" ->
            Lookup(g, (IF Len(s.v) > 1 THEN {s.f} ELSE {})
                      \cup UNION {TermIds(s.v[j]) : j \in 1..Len(s.v)})
      [] s.tag = "If" ->
            GenBlock(s.b, 1, GenBlock(s.a, 1, Lookup(g, TermIds(s.c))))
      [] s.tag = "Switch" ->
            GenBlock(s.default, 1, GenCases(s.branches, 1, Lookup(g, TermIds(s.x))))
      [] s.tag = "MultiCall" -> GenMultiCall(s, g)
GenBlock(ss, i, g) ==
    IF i > Len(ss) \/ g.missing # {} THEN g ELSE GenBlock(ss, i + 1, GenStmt(ss[i], g))
GenCases(branches, i, g) ==
    IF i > Len(branches) \/ g.missing # {} THEN g
    ELSE GenCases(branches, i + 1, GenBlock(branches[i][2], 1, g))

\* JFn::gen: the slots and the signature, then the arguments and the body under
\* a copy of the table, which is put back at the end
RECURSIVE GenArgs(_, _, _)
GenArgs(args, i, g) ==
    IF i > Len(args) \/ g.missing # {} THEN g
    ELSE GenArgs(args, i + 1,
             Lookup(Insert(g, args[i][1], args[i][2]),
                    TyIds(args[i][3]) \cup {args[i][2][1]}))
GenSignature(f, g) ==
    Lookup(g, {f.fn_id} \cup UNION {TyIds(f.ret_tys[j]) : j \in 1..Len(f.ret_tys)})
GenRestore(names, g) == [g EXCEPT !.names = names]
GenFn(f, g) ==
    GenRestore(g.names, GenBlock(f.body, 1, GenArgs(f.args, 1, GenSignature(f, g))))
\* JItem::gen: a function; an enum with its wrapper class and its methods
RECURSIVE GenMethods(_, _, _)
GenMethods(fns, i, g) ==
    IF i > Len(fns) \/ g.missing # {} THEN g ELSE GenMethods(fns, i + 1, GenFn(fns[i], g))
GenEnum(e, g) ==
    IF e.wrapper.tag = "None" THEN Lookup(g, {e.class})
    ELSE GenMethods(e.methods, 1,
             Lookup(g, {e.class, e.wrapper.x}
                       \cup UNION {TyIds(GenWrapper(e)[j].ty) : j \in 1..Len(GenWrapper(e))}))
\* JItem::gen (Let): the static fields, then, if there is anything to run,
\* static { block; var = value; ... } between Gen::push and Gen::pop, which
\* change the indentation only
GenVarValues(vs, g) ==
    Lookup(g, UNION {IF vs[j][3].tag = "None" THEN {}
                     ELSE {vs[j][1][1]} \cup TermIds(vs[j][3]) : j \in 1..Len(vs)})
GenVarFields(vs, g) ==
    Lookup(g, UNION {TyIds(vs[j][2]) \cup {vs[j][1][1]} : j \in 1..Len(vs)})
GenLetItem(item, g) ==
    IF Len(item.block) # 0 \/ \E j \in 1..Len(item.vars) : item.vars[j][3].tag # "None"
    THEN GenVarValues(item.vars, GenBlock(item.block, 1, GenVarFields(item.vars, g)))
    ELSE GenVarFields(item.vars, g)
\* JItem::gen (Class): the fields, the constructor running every member's
\* block and assignments, the methods
RECURSIVE GenMemberFields(_, _, _), GenConstructor(_, _, _)
GenMemberFields(members, i, g) ==
    IF i > Len(members) THEN g
    ELSE GenMemberFields(members, i + 1, GenVarFields(members[i].vars, g))
GenConstructor(members, i, g) ==
    IF i > Len(members) \/ g.missing # {} THEN g
    ELSE GenConstructor(members, i + 1,
             GenVarValues(members[i].vars, GenBlock(members[i].block, 1, g)))
GenClass(item, g) ==
    GenMethods(item.methods, 1,
        GenConstructor(item.members, 1,
            Lookup(GenMemberFields(item.members, 1, Lookup(g, {item.class})),
                   {item.class})))
GenItem(item, g) ==
    CASE item.tag = "Fn" -> GenFn(item.f, g)
      [] item.tag = "Enum" -> GenEnum(item, g)
      [] item.tag = "Let" -> GenLetItem(item, g)
      [] item.tag = "Class" -> GenClass(item, g)
\* IRMod::codegen, the loop over cxt.items
RECURSIVE GenItems(_, _, _)
GenItems(items, i, g) ==
    IF i > Len(items) \/ g.missing # {} THEN g ELSE GenItems(items, i + 1, GenItem(items[i], g))

\* every statement of a block, those of nested blocks included
RECURSIVE AllStmts(_, _)
AllStmts(ss, i) ==
    IF i > Len(ss) THEN {}
    ELSE {ss[i]} \cup AllStmts(ss, i + 1)
         \cup (IF ss[i].tag = "If" THEN AllStmts(ss[i].a, 1) \cup AllStmts(ss[i].b, 1)
               ELSE IF ss[i].tag = "Switch"
               THEN AllStmts(ss[i].default, 1)
                    \cup UNION {AllStmts(ss[i].branches[j][2], 1) :
                                   j \in 1..Len(ss[i].branches)}
               ELSE {})

(***************************************************************************)
(* Specification SpecArr: a function declares a dynamic array a from one   *)
(* of the sources the lowering supports and then applies array methods to  *)
(* it.  Each action lowers one statement of the function body in the       *)
(* context reached so far and runs the statements it emitted.              *)
(***************************************************************************)
SymA == <<<<"a">>, FALSE>>
SymX == <<<<"x">>, FALSE>>
FnMain == <<"m", "main">>
FnGetArr == <<"m", "getArr">>
FnPair == <<"m", "pair">>
SymP == <<<<"p">>, FALSE>>
SymQ == <<<<"q">>, FALSE>>

\* the element type and the i-th element of an array whose elements have k components
ElemType(k) ==
    IF k = 0 THEN TUnit
    ELSE IF k = 1 THEN TI32
    ELSE TTupleTy([j \in 1..k |-> TI32])
ElemTerm(k, v) ==
    IF k = 1 THEN TLit(v) ELSE TTuple([j \in 1..k |-> TLit(v + 10 * (j - 1))])

ArrInputs ==
    [src : {"empty"}, k : 0..MaxComp, n : {0}]
    \cup [src : {"lit"}, k : 0..MaxComp, n : 1..MaxLit]
    \cup [src : {"call"}, k : {1}, n : 0..MaxJava]

ArrSource(i) ==
    CASE i.src = "empty" -> TArray(<<>>, ElemType(i.k))
      [] i.src = "lit" -> TArray([e \in 1..i.n |-> ElemTerm(i.k, e)], ElemType(i.k))
      [] i.src = "call" -> TCall(None, FnGetArr, <<>>)

\* extern fn getArr() -> [I32]; fn pair(p: I32, q: I32) -> (I32, I32) = (p, q);
\* fn main() = { ... }
ArrItems(i) ==
    <<IExternFn(FnGetArr, TArrayTy(TI32), "getArr"),
      IFn(FnPair, <<<<SymP, TI32>>, <<SymQ, TI32>>>>, TTupleTy(<<TI32, TI32>>),
          TTuple(<<TVar(SymP), TVar(SymQ)>>), FALSE),
      IFn(FnMain, <<>>, TUnit, TBlock(<<>>, None), TRUE)>>

RtInit ==
    [store |-> <<>>, heap |-> <<>>, statics |-> <<>>, ctl |-> "run", retv |-> NullV,
     lbl |-> 0]

\* the functions the running program can reach
ArrEnv(c, i) ==
    [fns |-> GenFns(c.items), fields |-> <<>>,
     ext |-> (CxtFun(c, FnGetArr) :> [e \in 1..i.n |-> IntV(e)]),
     copy |-> CxtPredef(c, "ArrayCopy")]

\* the locals of a: its backing arrays and its length
AVars(c) == ToVec(CxtVar(c, SymA))
ALenVar(c) == AVars(c)[Len(AVars(c))]
ANumArrs(c) == Len(AVars(c)) - 1
ALen(c, st) == st.store[ALenVar(c)[1]][2]
ARef(c, st, j) == st.store[AVars(c)[j][1]]
AArr(c, st, j) == st.heap[ARef(c, st, j)[2]]
ACap(c, st, j) == Len(AArr(c, st, j))

Snapshot(c, st) ==
    [len |-> ALen(c, st),
     refs |-> [j \in 1..ANumArrs(c) |-> ARef(c, st, j)],
     arrs |-> [j \in 1..ANumArrs(c) |-> AArr(c, st, j)]]

\* locals that are dead after the statement leave the store, and arrays no
\* local refers to any more leave the heap
Sweep(c, st) ==
    LET live == {AVars(c)[j][1] : j \in 1..Len(AVars(c))}
        store == Restrict(st.store, live)
        used == {store[v][2] : v \in {w \in DOMAIN store : store[w][1] = "Ref"}}
    IN  [st EXCEPT !.store = store,
                   !.heap = [a \in 1..Len(st.heap) |-> IF a \in used THEN st.heap[a] ELSE <<>>]]

ArrInit ==
    /\ pc = "decl"
    /\ inp \in ArrInputs
    /\ cxt = CxtNew
    /\ rt = RtInit
    /\ obs = [op |-> "none", pushes |-> 0, others |-> 0]

\* the context after declare_p1, declare_p2, Item::lower of pair and the start
\* of Fn::lower of main
ArrEnter(items) ==
    FnEnter(items[3],
            ItemLower(items[2], DeclareP2(items, DeclareP1(items, 1, CxtNew), "m").c)).c

\* the statement has run: keep the context, the program state and the record
ArrDone(op, c, st, xs) ==
    /\ cxt' = [c EXCEPT !.block = <<>>, !.vars = IF op = "decl" THEN @ ELSE cxt.vars]
    /\ rt' = Sweep(IF op = "decl" THEN c ELSE cxt, st)
    /\ obs' = [op |-> op, emitted |-> c.block,
               pushes |-> obs.pushes + (IF op = "push" THEN 1 ELSE 0),
               others |-> obs.others + (IF op \in {"push", "decl"} THEN 0 ELSE 1),
               pre |-> IF op = "decl" THEN <<>> ELSE Snapshot(cxt, rt),
               val |-> IF st.ctl = "run" THEN [j \in 1..Len(xs) |-> st.store[xs[j][1]]]
                       ELSE <<>>]
\* the statement is lowered: run what it emitted
ArrRun(op, c) ==
    ArrDone(op, c, ExecS(c.block, 1, rt, ArrEnv(c, inp)),
            IF RFind(c.vars, SymX) = 0 THEN <<>> ELSE ToVec(CxtVar(c, SymX)))

\* let a = <source>
ArrDeclare ==
    /\ pc = "decl"
    /\ ArrRun("decl", LowerStmt(StLet(SymA, TArrayTy(ElemType(inp.k)), ArrSource(inp)),
                                ArrEnter(ArrItems(inp))))
    /\ pc' = "ops"
    /\ UNCHANGED inp

\* another statement on a can be lowered and run
ArrReady(op) ==
    /\ pc = "ops"
    /\ rt.ctl = "run"
    /\ IF op = "push" THEN obs.pushes < MaxPush ELSE obs.others < MaxOther

\* a.push(x); the i-th push pushes the literal 100 + i (components 100 + i, 110 + i, ...)
ArrPush ==
    /\ ArrReady("push")
    /\ ArrRun("push", LowerStmt(StTerm(TArrayMethod(TVar(SymA), "Push",
                                    ElemTerm(inp.k, 101 + obs.pushes))), cxt))
    /\ UNCHANGED <<pc, inp>>
\* let x = a.pop();
ArrPop ==
    /\ ArrReady("pop")
    /\ ArrRun("pop", LowerStmt(StLet(SymX, ElemType(inp.k),
                                     TArrayMethod(TVar(SymA), "Pop", None)), cxt))
    /\ UNCHANGED <<pc, inp>>
\* a.clear();
ArrClear ==
    /\ ArrReady("clear")
    /\ ArrRun("clear", LowerStmt(StTerm(TArrayMethod(TVar(SymA), "Clear", None)), cxt))
    /\ UNCHANGED <<pc, inp>>
\* let x = a.len();
ArrLen ==
    /\ ArrReady("len")
    /\ ArrRun("len", LowerStmt(StLet(SymX, TI32, TArrayMethod(TVar(SymA), "Len", None)),
                               cxt))
    /\ UNCHANGED <<pc, inp>>

\* let x = pair(a.pop(), a.pop()); or let x = (a.pop(), a.pop());
ArrPopPop ==
    /\ ArrReady("pop")
    /\ inp.k = 1
    /\ \E via \in {"popcall", "poptuple"} :
          ArrRun(via, LowerStmt(StLet(SymX, TTupleTy(<<TI32, TI32>>),
                     IF via = "popcall"
                     THEN TCall(None, FnPair, <<TArrayMethod(TVar(SymA), "Pop", None),
                                                TArrayMethod(TVar(SymA), "Pop", None)>>)
                     ELSE TTuple(<<TArrayMethod(TVar(SymA), "Pop", None),
                                   TArrayMethod(TVar(SymA), "Pop", None)>>)), cxt))
    /\ UNCHANGED <<pc, inp>>
\* a.push(a.len()); or a.push(7 + a.len());
ArrPushLen ==
    /\ ArrReady("len")
    /\ inp.k = 1
    /\ \E via \in {"pushlen", "pushsum"} :
          ArrRun(via, LowerStmt(StTerm(TArrayMethod(TVar(SymA), "Push",
                     IF via = "pushlen" THEN TArrayMethod(TVar(SymA), "Len", None)
                     ELSE TBinOp("Add", TLit(7), TArrayMethod(TVar(SymA), "Len", None)))),
                     cxt))
    /\ UNCHANGED <<pc, inp>>

ArrNext ==
    ArrDeclare \/ ArrPush \/ ArrPop \/ ArrClear \/ ArrLen \/ ArrPopPop \/ ArrPushLen

SpecArr == ArrInit /\ [][ArrNext]_vars

(***************************************************************************)
(* Claims about dynamic arrays, checked under SpecArr.                     *)
(***************************************************************************)
AOps == {"push", "pop", "clear", "len"}

\* C1: a dynamic array of elements with k components is k backing arrays and
\* one int length, before and after every lowered operation; push adds
\* exactly 1 to the length, pop subtracts exactly 1, clear sets it to 0, len
\* reads it and leaves it alone; and after any operation other than push
\* every backing-array local still refers to the array it referred to before.
C1_LengthExact ==
    obs.op \in AOps =>
        /\ ANumArrs(cxt) = inp.k
        /\ Len(obs.pre.refs) = inp.k
        /\ \A j \in 1..ANumArrs(cxt) : ARef(cxt, rt, j)[1] = "Ref"
        /\ rt.store[ALenVar(cxt)[1]][1] = "Int"
        /\ obs.op = "push" => ALen(cxt, rt) = obs.pre.len + 1
        /\ obs.op = "pop" => ALen(cxt, rt) = obs.pre.len - 1
        /\ obs.op = "clear" => ALen(cxt, rt) = 0
        /\ obs.op = "len" =>
              /\ ALen(cxt, rt) = obs.pre.len
              /\ obs.val = <<IntV(obs.pre.len)>>
        /\ obs.op # "push" =>
              \A j \in 1..ANumArrs(cxt) : ARef(cxt, rt, j) = obs.pre.refs[j]

\* a pop of an array of two-component elements took the length from 2 to 1
C1_Witness ==
    /\ obs.op = "pop"
    /\ inp.k = 2
    /\ obs.pre.len = 2
    /\ ALen(cxt, rt) = 1
    /\ rt.ctl = "run"

\* C2: a push that starts with the length equal to the capacity leaves every
\* backing array with exactly twice the capacity and with the elements at
\* indices 0..length-1 it had before; a push that starts with the length
\* below the capacity leaves every backing-array local referring to the same
\* array.
C2_PushDoubles ==
    obs.op = "push" =>
        \A j \in 1..ANumArrs(cxt) :
            /\ obs.pre.len = Len(obs.pre.arrs[j]) =>
                  /\ ACap(cxt, rt, j) = 2 * Len(obs.pre.arrs[j])
                  /\ \A i \in 1..obs.pre.len : AArr(cxt, rt, j)[i] = obs.pre.arrs[j][i]
            /\ obs.pre.len < Len(obs.pre.arrs[j]) =>
                  ARef(cxt, rt, j) = obs.pre.refs[j]

\* the ninth push on an empty literal: capacity 8 became 16, two components
C2_Witness ==
    /\ obs.op = "push"
    /\ inp.src = "empty"
    /\ inp.k = 2
    /\ obs.pre.len = EmptyCap
    /\ Len(obs.pre.arrs[2]) = EmptyCap
    /\ ACap(cxt, rt, 2) = 2 * EmptyCap
    /\ AArr(cxt, rt, 2)[EmptyCap + 1] = IntV(119)
    /\ rt.ctl = "run"

\* C3: whatever source the array came from, right after each push the length
\* is at most the capacity of every backing array and the store at index
\* length-1 was in bounds (the push ran without an exception).
C3_PushInBounds ==
    obs.op = "push" =>
        /\ rt.ctl = "run"
        /\ \A j \in 1..ANumArrs(cxt) : ALen(cxt, rt) <= ACap(cxt, rt, j)

(***************************************************************************)
(* Specification SpecMod: a module is declared (declare_p1, declare_p2),   *)
(* lowered item by item and emitted (IRMod::codegen), and its main is run. *)
(* The input chooses the module from two families.                         *)
(*                                                                         *)
(* Family "ret":                                                           *)
(*   fn g(n: I32) -> I32                                                   *)
(*   fn f(n: I32) -> <shape>                                               *)
(*   fn main() = { let r = f(<arg>); }                                     *)
(* where the input chooses the return shape of f, the form of its body and *)
(* whether computing its last component calls f again.                     *)
(*                                                                         *)
(* Family "enum":                                                          *)
(*   enum E { A(<payload>), B(<payload>) }                                 *)
(*   fn mk() -> E = <variant>(21, 22, ..)                                  *)
(*   fn main() = { let r = match <scrutinee> { A(..) => (1, ..),           *)
(*                                             B(..) => (2, ..) }; }       *)
(* where the input chooses the payloads, the variant constructed and       *)
(* whether the scrutinee is the construction itself or the call mk().      *)
(***************************************************************************)
MaxRet == 2         \* I32 components of f's return type (0..MaxRet)
MaxArg == 1         \* the argument main passes to f (0..MaxArg)

FnF == <<"m", "f">>
FnG == <<"m", "g">>
SymN == <<<<"n">>, FALSE>>
SymR == <<<<"r">>, FALSE>>

RetInputs ==
    {i \in [kind : {"ret"}, wrap : {"one", "tuple", "tuple_unit"}, k : 0..MaxRet,
            body : {"value", "return", "ifreturn"},
            via : {"none", "direct", "indirect"}, n : 0..MaxArg] :
        /\ i.wrap = "one" => i.k = 1
        /\ i.via # "none" => i.k >= 2}

\* the return type of f
RetType(i) ==
    CASE i.wrap = "one" -> TI32
      [] i.wrap = "tuple" -> TTupleTy([j \in 1..i.k |-> TI32])
      [] i.wrap = "tuple_unit" -> TTupleTy([j \in 1..i.k |-> TI32] \o <<TUnit>>)

\* if n > 0 { f(0); 7 } else { 7 }
AgainF ==
    TIf(TBinOp("Gt", TVar(SymN), TLit(0)),
        TBlock(<<StTerm(TCall(None, FnF, <<TLit(0)>>))>>, TLit(7)),
        TLit(7))

\* the j-th component of the value of f(n) is n + 10 * (j - 1); with via, the
\* last one is 7, computed after another call of f
RetComp(i, j) ==
    IF j = i.k /\ i.via = "direct" THEN AgainF
    ELSE IF j = i.k /\ i.via = "indirect" THEN TCall(None, FnG, <<TVar(SymN)>>)
    ELSE TBinOp("Add", TVar(SymN), TLit(10 * (j - 1)))
RetValue(i) ==
    CASE i.wrap = "one" -> RetComp(i, 1)
      [] i.wrap = "tuple" -> TTuple([j \in 1..i.k |-> RetComp(i, j)])
      [] i.wrap = "tuple_unit" -> TTuple([j \in 1..i.k |-> RetComp(i, j)] \o <<TTuple(<<>>)>>)
RetBody(i) ==
    CASE i.body = "value" -> RetValue(i)
      [] i.body = "return" -> TBlock(<<StTerm(TReturn(RetValue(i)))>>, None)
      [] i.body = "ifreturn" ->
            TIf(TBinOp("Gt", TVar(SymN), TLit(0)), TReturn(RetValue(i)), RetValue(i))

RetItems(i) ==
    <<IFn(FnG, <<<<SymN, TI32>>>>, TI32,
          IF i.via = "indirect" THEN AgainF ELSE TLit(7), FALSE),
      IFn(FnF, <<<<SymN, TI32>>>>, RetType(i), RetBody(i), FALSE),
      IFn(FnMain, <<>>, TUnit,
          TBlock(<<StLet(SymR, RetType(i), TCall(None, FnF, <<TLit(i.n)>>))>>, None),
          TRUE)>>

\* the value the source gives f(n), component by component
RetExpected(i) ==
    [j \in 1..i.k |-> IF j = i.k /\ i.via # "none" THEN IntV(7)
                      ELSE IntV(i.n + 10 * (j - 1))]

(***************************************************************************)
(* The family "enum".                                                      *)
(***************************************************************************)
MaxPay == 2         \* I32 payload components of a variant (0..MaxPay)

TyE == <<"m", "E">>
FnMk == <<"m", "mk">>
EnumInputs ==
    [kind : {"enum"}, pa : 0..MaxPay, pb : 0..MaxPay, ua : BOOLEAN,
     v : {"A", "B"}, scrut : {"construct", "call"}]

\* the payload types of a variant: pa or pb times I32, and for A a unit if ua
EnumPay(i, v) ==
    [j \in 1..(IF v = "A" THEN i.pa ELSE i.pb) |-> TI32]
    \o (IF v = "A" /\ i.ua THEN <<TUnit>> ELSE <<>>)
\* the number of I32 components of a variant
EnumArity(i, v) == IF v = "A" THEN i.pa ELSE i.pb
\* <variant>(21, 22, .., ())
EnumConstruct(i) ==
    TVariant(TyE, i.v, [j \in 1..Len(EnumPay(i, i.v)) |->
                           IF EnumPay(i, i.v)[j] = TUnit THEN TTuple(<<>>) ELSE TLit(20 + j)])
\* the captures c1, c2, .. of an arm, and the arm <variant>(c1, ..) => (code, c1, .., 0, ..)
CapSym(j) == <<<<"c" \o ToString(j)>>, FALSE>>
EnumArm(i, v, code) ==
    <<Some(v),
      [j \in 1..Len(EnumPay(i, v)) |-> <<CapSym(j), EnumPay(i, v)[j]>>],
      TTuple(<<TLit(code)>>
             \o [j \in 1..MaxPay |-> IF j <= EnumArity(i, v) THEN TVar(CapSym(j)) ELSE TLit(0)])>>
EnumItems(i) ==
    <<IEnum(TyE, <<<<"A", EnumPay(i, "A")>>, <<"B", EnumPay(i, "B")>>>>, FALSE, <<>>, <<>>),
      IFn(FnMk, <<>>, TClassTy(TyE), EnumConstruct(i), FALSE),
      IFn(FnMain, <<>>, TUnit,
          TBlock(<<StLet(SymR, TTupleTy([j \in 1..(MaxPay + 1) |-> TI32]),
                         TMatch(TyE,
                                IF i.scrut = "call" THEN TCall(None, FnMk, <<>>)
                                ELSE EnumConstruct(i),
                                <<EnumArm(i, "A", 1), EnumArm(i, "B", 2)>>))>>, None),
          TRUE)>>
\* the value the source gives the match: the code of the arm, the payload, zeros
EnumExpected(i) ==
    <<IntV(IF i.v = "A" THEN 1 ELSE 2)>>
    \o [j \in 1..MaxPay |-> IF j <= EnumArity(i, i.v) THEN IntV(20 + j) ELSE IntV(0)]

(***************************************************************************)
(* The third family of modules: an enum E with the variants A, B and C,    *)
(* and main() { let q = 0; let r = match <v> { arms }; }.  The arms are a   *)
(* list of distinct variants and, first or last or not at all, a default;  *)
(* every arm adds a number of its own to q and has that number as its      *)
(* value, so that q tells which arms have run.  With pay the variants      *)
(* carry an I32, which the arm captures.                                   *)
(***************************************************************************)
Variants == <<"A", "B", "C">>
ArmLists ==
    {a \in UNION {[1..n -> 1..Len(Variants)] : n \in 0..Len(Variants)} :
        \A i, j \in 1..Len(a) : i # j => a[i] # a[j]}
SwitchInputs ==
    [kind : {"switch"}, arms : ArmLists, default : {"none", "first", "last"},
     v : 1..Len(Variants), pay : BOOLEAN]

\* the number an arm adds to q: 1, 10, 100 for the variants, 1000 for default
ArmCode(n) == IF n = 0 THEN 1000 ELSE IF n = 1 THEN 1 ELSE IF n = 2 THEN 10 ELSE 100
ArmBody(n) ==
    TBlock(<<StTerm(TSet(LVVar(SymQ), "Add", TLit(ArmCode(n))))>>, TLit(ArmCode(n)))
SwitchArms(i) ==
    (IF i.default = "first" THEN <<<<None, <<>>, ArmBody(0)>>>> ELSE <<>>)
    \o [j \in 1..Len(i.arms) |->
           <<Some(Variants[i.arms[j]]),
             IF i.pay THEN <<<<CapSym(1), TI32>>>> ELSE <<>>,
             ArmBody(i.arms[j])>>]
    \o (IF i.default = "last" THEN <<<<None, <<>>, ArmBody(0)>>>> ELSE <<>>)
SwitchItems(i) ==
    <<IEnum(TyE, [j \in 1..Len(Variants) |->
                    <<Variants[j], IF i.pay THEN <<TI32>> ELSE <<>>>>], FALSE, <<>>, <<>>),
      IFn(FnMain, <<>>, TUnit,
          TBlock(<<StLet(SymQ, TI32, TLit(0)),
                   StLet(SymR, TI32,
                         TMatch(TyE,
                                TVariant(TyE, Variants[i.v],
                                         IF i.pay THEN <<TLit(7)>> ELSE <<>>),
                                SwitchArms(i)))>>, None),
          TRUE)>>
\* what the source means: the arm of the variant if there is one, else the
\* default if there is one, else nothing
SwitchExpected(i) ==
    IF \E j \in 1..Len(i.arms) : i.arms[j] = i.v THEN ArmCode(i.v)
    ELSE IF i.default # "none" THEN ArmCode(0) ELSE 0

(***************************************************************************)
(* The actions of SpecMod.                                                 *)
(***************************************************************************)
ModItems(i) ==
    IF i.kind = "ret" THEN RetItems(i)
    ELSE IF i.kind = "enum" THEN EnumItems(i) ELSE SwitchItems(i)

ModInit ==
    /\ pc = "decl"
    /\ inp \in RetInputs \cup EnumInputs \cup SwitchInputs
    /\ cxt = CxtNew
    /\ rt = RtInit
    /\ obs = [op |-> "none", n |-> 0, mappings |-> <<>>, gen |-> GenNew(<<>>)]

\* declare_p1 over the items of the module
ModDeclareP1 ==
    /\ pc = "decl"
    /\ cxt' = DeclareP1(ModItems(inp), 1, cxt)
    /\ obs' = [obs EXCEPT !.op = "decl"]
    /\ pc' = "decl2"
    /\ UNCHANGED <<inp, rt>>

\* declare_p2 over the items of the module
ModDeclared(d) ==
    /\ cxt' = d.c
    /\ obs' = [op |-> "decl", n |-> 0, mappings |-> d.mod.mappings, gen |-> obs.gen]
ModDeclareP2 ==
    /\ pc = "decl2"
    /\ ModDeclared(DeclareP2(ModItems(inp), cxt, "m"))
    /\ pc' = "lower"
    /\ UNCHANGED <<inp, rt>>

\* IRMod::codegen, one turn of the loop over self.code
ModLower ==
    /\ pc = "lower"
    /\ obs.n < Len(ModItems(inp))
    /\ cxt.panic = ""
    /\ cxt' = ItemLower(ModItems(inp)[obs.n + 1], cxt)
    /\ obs' = [obs EXCEPT !.op = "lower", !.n = @ + 1]
    /\ UNCHANGED <<pc, inp, rt>>

\* IRMod::codegen, the items are emitted: the class is loaded with its static fields
ModEmit ==
    /\ pc = "lower"
    /\ obs.n = Len(ModItems(inp))
    /\ cxt.panic = ""
    /\ rt' = [rt EXCEPT !.statics = GenStatics(cxt.items)]
    /\ obs' = [obs EXCEPT !.op = "emit",
                          !.gen = GenItems(cxt.items, 1,
                                           GenNew(MergeNames(obs.mappings, 1, "m", <<>>)))]
    /\ pc' = "emitted"
    /\ UNCHANGED <<inp, cxt>>

\* an emitted function, and what a running program can reach
ModFn(c, id) == GenFns(c.items)[CxtFun(c, id)]
ModEnv(c) ==
    [fns |-> GenFns(c.items), fields |-> GenClasses(c.items), ext |-> <<>>,
     copy |-> CxtPredef(c, "ArrayCopy")]

\* main runs
ModRun ==
    /\ pc = "emitted"
    /\ rt' = ExecS(ModFn(cxt, FnMain).body, 1, rt, ModEnv(cxt))
    /\ obs' = [obs EXCEPT !.op = "run"]
    /\ pc' = "done"
    /\ UNCHANGED <<inp, cxt>>

ModNext == ModDeclareP1 \/ ModDeclareP2 \/ ModLower \/ ModEmit \/ ModRun

SpecMod == ModInit /\ [][ModNext]_vars

\* the locals the call site in main declares for the value of f, and the
\* locals of main that a let of this name declares
RetOutVars(body) ==
    IF body[1].tag = "MultiCall" THEN [j \in 1..Len(body[1].rets) |-> body[1].rets[j][2]]
    ELSE <<body[1].v>>
LetLocals(body, name) ==
    LET IsLet(st) == st.tag = "Let" /\ st.n = Raw(name)
        lets == SelectSeq(body, IsLet)
    IN  [j \in 1..Len(lets) |-> lets[j].v]
\* the values of locals in the state of the program, if they are all there
Values(st, lvars) ==
    IF \A j \in 1..Len(lvars) : lvars[j][1] \in DOMAIN st.store
    THEN [j \in 1..Len(lvars) |-> st.store[lvars[j][1]]]
    ELSE <<>>

(***************************************************************************)
(* Claims about multi-value returns, checked under SpecMod.                *)
(***************************************************************************)
\* C4: every emitted function whose return shape has k # 1 components is
\* declared void with exactly the k static slots <fn>$_ret0$S ..
\* <fn>$_ret(k-1)$S, and every return statement in its body, the one
\* Fn::lower appends after the body included, stores into all k slots, in
\* order, before its return;
C4_SlotsWritten ==
    (pc \in {"emitted", "done"} /\ inp.kind = "ret") =>
        \A f \in FnItems(cxt.items) :
            Len(f.ret_tys) # 1 =>
                /\ GenRetTy(f) = Void
                /\ Len(GenSlots(f)) = Len(f.ret_tys)
                /\ \A i \in 1..Len(f.ret_tys) : GenSlots(f)[i].slot = <<f.fn_id, i - 1>>
                /\ \A s \in AllStmts(f.body, 1) :
                      s.tag = "Ret" =>
                          /\ Len(GenRet(s)) = Len(f.ret_tys) + 1
                          /\ \A i \in 1..Len(f.ret_tys) :
                                /\ GenRet(s)[i].line = "set"
                                /\ GenRet(s)[i].slot = <<f.fn_id, i - 1>>
                          /\ GenRet(s)[Len(GenRet(s))] = [line |-> "return"]

\* C5: when main has called a function f that returns two or more values,
\* the i-th local declared at the call site holds the i-th component of the
\* value of that invocation of f, also when computing the last component
\* calls f again, directly or through g.
C5_OutBindings ==
    (pc = "done" /\ inp.kind = "ret" /\ inp.wrap # "one" /\ inp.k >= 2
       /\ inp.body = "value") =>
        Values(rt, RetOutVars(ModFn(cxt, FnMain).body)) = RetExpected(inp)

\* C9: when the lowered return shape of f is a Tuple of exactly one
\* component, the call of f in main is lowered as it is for a function
\* returning One: a plain call expression initialises the local and no
\* MultiCall is emitted, in agreement with the callee, which is emitted
\* with a return type, return x; and no slots.
C9_OneTupleCall ==
    (pc \in {"emitted", "done"} /\ inp.kind = "ret"
       /\ MLen(cxt.fn_ret_tys[CxtFun(cxt, FnF)]) = 1) =>
        /\ GenSlots(ModFn(cxt, FnF)) = <<>>
        /\ GenRetTy(ModFn(cxt, FnF)) # Void
        /\ \A s \in AllStmts(ModFn(cxt, FnMain).body, 1) : s.tag # "MultiCall"
        /\ ModFn(cxt, FnMain).body[1].tag = "Let"
        /\ ModFn(cxt, FnMain).body[1].x = JCall(None, CxtFun(cxt, FnF), <<JLitInt(inp.n)>>, JI32)

(***************************************************************************)
(* Claims about enums, checked under SpecMod.                              *)
(***************************************************************************)
EnumWrapped == CxtClass(cxt, TyE) \in DOMAIN cxt.enum_wrappers
EnumItem == cxt.items[CHOOSE n \in 1..Len(cxt.items) : cxt.items[n].tag = "Enum"]
MainBody == ModFn(cxt, FnMain).body
MainSwitch == MainBody[CHOOSE n \in 1..Len(MainBody) : MainBody[n].tag = "Switch"]
Occurs(fields, name) == Cardinality({j \in 1..Len(fields) : fields[j].name = name})

\* C6: after declare_p1 the enum has a registered wrapper class if and only if
\* one of its variants is declared with a payload; and the emitted wrapper class
\* of a non-external enum declares one field $type of the enum type and exactly
\* one field _enum$<variant>$<i> for every flattened payload component i of
\* every variant.
C6_WrapperIffPayload ==
    (inp.kind = "enum" /\ pc # "decl") =>
        /\ EnumWrapped <=> (\E v \in {"A", "B"} : Len(EnumPay(inp, v)) # 0)
        /\ (pc \in {"emitted", "done"} /\ EnumWrapped) =>
              /\ EnumItem.wrapper = Some(cxt.enum_wrappers[CxtClass(cxt, TyE)])
              /\ Occurs(GenWrapper(EnumItem), Raw("$type")) = 1
              /\ \A j \in 1..Len(GenWrapper(EnumItem)) :
                    GenWrapper(EnumItem)[j].name = Raw("$type") =>
                        GenWrapper(EnumItem)[j].ty = JClassTy(CxtClass(cxt, TyE))
              /\ \A v \in {"A", "B"} : \A n \in 0..(EnumArity(inp, v) - 1) :
                    Occurs(GenWrapper(EnumItem), RawEnum(v, n)) = 1
C6_Witness ==
    /\ inp.kind = "enum" /\ pc = "emitted" /\ EnumWrapped
    /\ inp.pa = MaxPay /\ inp.pb = 1
    /\ Len(GenWrapper(EnumItem)) = 1 + MaxPay + 1

\* C7: constructing a variant with payload components c0..cn leaves an object
\* whose $type is the variant and whose fields _enum$<variant>$<i> hold ci when
\* the reference reaches the enclosing expression, and a match on that value
\* takes the arm of the variant and binds its captures, in declaration order, to
\* c0..cn.
C7_RoundTrip ==
    (inp.kind = "enum" /\ pc = "done") =>
        /\ rt.ctl = "run"
        /\ Values(rt, LetLocals(MainBody, "r")) = EnumExpected(inp)
        /\ EnumWrapped =>
              /\ Len(rt.heap) >= 1
              /\ rt.heap[1][Raw("$type")] = <<"Enum", inp.v>>
              /\ \A n \in 0..(EnumArity(inp, inp.v) - 1) :
                    rt.heap[1][RawEnum(inp.v, n)] = IntV(21 + n)
C7_Witness ==
    /\ inp.kind = "enum" /\ pc = "done" /\ EnumWrapped
    /\ EnumArity(inp, inp.v) = MaxPay
    /\ Values(rt, LetLocals(MainBody, "r")) = EnumExpected(inp)

\* C8: the switch of a match on an enum without a wrapper is on the scrutinee
\* itself; with a wrapper it is on the field $type of the scrutinee, and a
\* scrutinee that is not simple is stored first in a local $_scrutinee, which
\* the switch and the captures read, so that it is evaluated exactly once.
C8_Scrutinee ==
    (inp.kind = "enum" /\ pc \in {"emitted", "done"}) =>
        /\ ~EnumWrapped =>
              MainSwitch.x.tag = (IF inp.scrut = "call" THEN "Call" ELSE "Variant")
        /\ EnumWrapped =>
              /\ MainSwitch.x.tag = "Prop"
              /\ MainSwitch.x.prop = Raw("$type")
              /\ MainSwitch.x.obj.tag = "Var"
        /\ (EnumWrapped /\ inp.scrut = "call") =>
              /\ Len(LetLocals(MainBody, "$_scrutinee")) = 1
              /\ MainBody[1].tag = "Let" /\ MainBody[1].n = Raw("$_scrutinee")
              /\ MainBody[1].x.tag = "Call"
              /\ MainSwitch.x.obj.v = MainBody[1].v
              /\ pc = "done" => Len(rt.heap) = 1
C8_Witness ==
    /\ inp.kind = "enum" /\ pc = "done" /\ EnumWrapped /\ inp.scrut = "call"
    /\ EnumArity(inp, inp.v) >= 1
    /\ Len(LetLocals(MainBody, "$_scrutinee")) = 1
    /\ rt.ctl = "run"

MaxId == 12         \* ids are 1..MaxId
MaxNames == 2       \* entries of the name table

NamePaths == {<<"a">>, <<"m", "m", "a">>, <<"a$1">>, <<"lib", "m", "a">>}
NameLocals == {"a", "a$1"}

NamesInit ==
    /\ pc = "declare"
    /\ inp = [kind |-> "names"]
    /\ cxt = CxtNew
    /\ rt = RtInit
    /\ obs = [op |-> "none", mappings |-> <<>>, gen |-> GenNew(<<>>), out |-> <<>>]

\* Cxt::fresh_block and every other fresh id that gets no entry
NameFresh ==
    /\ pc = "declare"
    /\ FreshId(cxt) < MaxId
    /\ cxt' = Bump(cxt)
    /\ obs' = [obs EXCEPT !.op = "fresh"]
    /\ UNCHANGED <<pc, inp, rt>>

\* declare_p2: mappings.push((id, path, mangle)) for a fresh id
NameDeclare ==
    /\ pc = "declare"
    /\ FreshId(cxt) <= MaxId
    /\ Len(obs.mappings) < MaxNames
    /\ \E path \in NamePaths, b \in BOOLEAN :
          obs' = [obs EXCEPT !.op = "declare",
                             !.mappings = Append(@, <<FreshId(cxt), path, b>>)]
    /\ cxt' = Bump(cxt)
    /\ UNCHANGED <<pc, inp, rt>>

\* IRMod::codegen: the mappings are merged into the table of a new Gen
NameMerge ==
    /\ pc = "declare"
    /\ obs' = [obs EXCEPT !.op = "merge",
                          !.gen = GenNew(MergeNames(obs.mappings, 1, "m", <<>>))]
    /\ pc' = "emit"
    /\ UNCHANGED <<inp, cxt, rt>>

\* JStmt::gen (Let) of a local made by Cxt::fresh_var: the name is inserted
NameLet ==
    /\ pc = "emit"
    /\ FreshId(cxt) <= MaxId
    /\ Cardinality(DOMAIN obs.gen.names) < MaxNames
    /\ \E n \in NameLocals, public \in BOOLEAN :
          obs' = [obs EXCEPT !.op = "let",
                             !.gen = Insert(@, n, <<FreshId(cxt), public>>)]
    /\ cxt' = Bump(cxt)
    /\ UNCHANGED <<pc, inp, rt>>

\* name_str, fn_str, class_str of every entry
NameRender ==
    /\ pc = "emit"
    /\ obs' = [obs EXCEPT !.op = "render",
                          !.out = [id \in DOMAIN obs.gen.names |-> NameStr(obs.gen, id)]]
    /\ pc' = "rendered"
    /\ UNCHANGED <<inp, cxt, rt>>

NamesNext == NameFresh \/ NameDeclare \/ NameMerge \/ NameLet \/ NameRender

SpecNames == NamesInit /\ [][NamesNext]_vars

(***************************************************************************)
(* Claims about rendered names and merged paths, checked under SpecNames.  *)
(***************************************************************************)
\* C11: an id whose mangle flag is set is rendered as <resolved path>$<id>, an
\* id whose flag is clear as the resolved path alone; and no two distinct ids
\* with the flag set are rendered as the same identifier, whatever their names.
C11_Mangled ==
    pc = "rendered" =>
        /\ \A id \in DOMAIN obs.out :
              obs.out[id] = IF obs.gen.names[id][2]
                            THEN ResolvePath(obs.gen.names[id][1]) \o "$" \o ToString(id)
                            ELSE ResolvePath(obs.gen.names[id][1])
        /\ \A id1, id2 \in DOMAIN obs.out :
              (id1 # id2 /\ obs.gen.names[id1][2] /\ obs.gen.names[id2][2]) =>
                  obs.out[id1] # obs.out[id2]
C11_Witness ==
    /\ pc = "rendered"
    /\ 2 \in DOMAIN obs.out /\ 12 \in DOMAIN obs.out
    /\ obs.out[2] = "a$1$2" /\ obs.out[12] = "a$12"

\* C12: when codegen merges the mappings, a path whose first component is the
\* name of the module loses exactly that one component, also when the next one
\* is the module name again; every other path is stored as it is; and every
\* entry keeps its mangle flag.
C12_StripOne ==
    pc \in {"emit", "rendered"} =>
        \A j \in 1..Len(obs.mappings) :
            LET id == obs.mappings[j][1]
                path == obs.mappings[j][2]
            IN  /\ id \in DOMAIN obs.gen.names
                /\ obs.gen.names[id][2] = obs.mappings[j][3]
                /\ (Len(path) > 0 /\ path[1] = "m") =>
                      obs.gen.names[id][1] = SubSeq(path, 2, Len(path))
                /\ ~(Len(path) > 0 /\ path[1] = "m") => obs.gen.names[id][1] = path
C12_Witness ==
    /\ pc = "emit"
    /\ \E j \in 1..Len(obs.mappings) :
          /\ obs.mappings[j][2] = <<"m", "m", "a">>
          /\ obs.gen.names[obs.mappings[j][1]][1] = <<"m", "a">>
    /\ \E j \in 1..Len(obs.mappings) :
          /\ obs.mappings[j][2] = <<"lib", "m", "a">>
          /\ obs.gen.names[obs.mappings[j][1]][1] = <<"lib", "m", "a">>

(***************************************************************************)
(* Two runs of the pipeline on the same input.  Each run starts from        *)
(* Cxt::new, and each draws the state of the hasher its HashMaps are        *)
(* created with; the output of a run is what the emitted text is made of:   *)
(* the lowered items, the next unallocated id, and the rendering of every   *)
(* item the emitter looks up.                                               *)
(***************************************************************************)
HashSeeds == {0, 1}

\* the order in which a HashMap with this hasher state is walked
HashOrder(s, seed) ==
    IF seed = 0 THEN s ELSE [i \in 1..Len(s) |-> s[Len(s) + 1 - i]]

\* a name table whose paths are taken from a walk of a HashMap
CodegenNamesHashed(mappings, name, seed) ==
    MergeNames([i \in 1..Len(mappings) |->
                   <<mappings[i][1], HashOrder(mappings, seed)[i][2], mappings[i][3]>>],
               1, name, <<>>)
\* IRMod::codegen, the name table: a HashMap created with the hasher state of
\* the run, filled from the mappings in their order and only ever indexed
CodegenNames(mappings, name, seed) == MergeNames(mappings, 1, name, <<>>)

\* the string codegen returns, as its parts
DetOutput(c, g) ==
    [items |-> c.items,
     next |-> FreshId(c),
     text |-> [id \in g.found \cap DOMAIN g.names |-> NameStr(g, id)],
     missing |-> g.missing]

DetInit ==
    /\ pc = "start"
    /\ inp \in RetInputs \cup EnumInputs
    /\ cxt = CxtNew
    /\ rt = RtInit
    /\ obs = [op |-> "none", n |-> 0, mappings |-> <<>>, gen |-> GenNew(<<>>),
              seeds |-> <<>>, out |-> <<>>]

\* Cxt::new: a run starts in a fresh context
DetStart ==
    /\ pc = "start"
    /\ Len(obs.out) < 2
    /\ \E seed \in HashSeeds :
          obs' = [obs EXCEPT !.op = "new", !.n = 0, !.mappings = <<>>,
                             !.seeds = Append(@, seed)]
    /\ cxt' = CxtNew
    /\ pc' = "decl"
    /\ UNCHANGED <<inp, rt>>

\* declare_p1 over the items of the module
DetDeclareP1 ==
    /\ pc = "decl"
    /\ cxt' = DeclareP1(ModItems(inp), 1, cxt)
    /\ obs' = [obs EXCEPT !.op = "decl"]
    /\ pc' = "decl2"
    /\ UNCHANGED <<inp, rt>>

\* declare_p2 over the items of the module
DetDeclared(d) ==
    /\ cxt' = d.c
    /\ obs' = [obs EXCEPT !.op = "decl2", !.mappings = d.mod.mappings]
DetDeclareP2 ==
    /\ pc = "decl2"
    /\ DetDeclared(DeclareP2(ModItems(inp), cxt, "m"))
    /\ pc' = "lower"
    /\ UNCHANGED <<inp, rt>>

\* IRMod::codegen, one turn of the loop over self.code
DetLower ==
    /\ pc = "lower"
    /\ obs.n < Len(ModItems(inp))
    /\ cxt.panic = ""
    /\ cxt' = ItemLower(ModItems(inp)[obs.n + 1], cxt)
    /\ obs' = [obs EXCEPT !.op = "lower", !.n = @ + 1]
    /\ UNCHANGED <<pc, inp, rt>>

\* IRMod::codegen, the items are emitted and the string is returned
DetEmitted(g) ==
    obs' = [obs EXCEPT !.op = "emit", !.gen = g, !.out = Append(@, DetOutput(cxt, g))]
DetEmit ==
    /\ pc = "lower"
    /\ obs.n = Len(ModItems(inp))
    /\ cxt.panic = ""
    /\ DetEmitted(GenItems(cxt.items, 1,
                           GenNew(CodegenNames(obs.mappings, "m",
                                               obs.seeds[Len(obs.seeds)]))))
    /\ pc' = "start"
    /\ UNCHANGED <<inp, cxt, rt>>

DetNext == DetStart \/ DetDeclareP1 \/ DetDeclareP2 \/ DetLower \/ DetEmit

SpecDet == DetInit /\ [][DetNext]_vars

MaxStmt == 2        \* statements of a condition or of a branch (0..MaxStmt)
MaxNest == 2        \* constructs nested around a jump (0..MaxNest)

SymB == <<<<"b">>, FALSE>>

IfInputs == [kind : {"if"}, sc : 0..MaxStmt, sa : 0..MaxStmt, sb : 0..MaxStmt, k : 0..MaxComp]

\* n statements let <sym> = v + j, as a block whose value has k components
FlowLets(sym, n, v) == [j \in 1..n |-> StLet(sym, TI32, TLit(v + j))]
FlowBranch(sym, n, k, v) == TBlock(FlowLets(sym, n, v), IF k = 0 THEN None ELSE ElemTerm(k, v))
IfCond(i) ==
    IF i.sc = 0 THEN TBinOp("Lt", TLit(1), TLit(2))
    ELSE TBlock(FlowLets(SymP, i.sc, 0), TBinOp("Lt", TVar(SymP), TLit(2)))
IfTerm(i) == TIf(IfCond(i), FlowBranch(SymA, i.sa, i.k, 100), FlowBranch(SymB, i.sb, i.k, 200))
IfBody(i) ==
    <<StLet(SymQ, TI32, TLit(0)),
      IF i.k = 0 THEN StTerm(IfTerm(i)) ELSE StLet(SymR, ElemType(i.k), IfTerm(i))>>

Wraps == {"while", "for", "if", "block", "match"}
Loops == {"while", "for"}
Nests == UNION {[1..n -> Wraps] : n \in 0..MaxNest}
JumpInputs == [kind : {"jump"}, w : Nests, j : {"Break", "Continue"}, after : BOOLEAN]

RECURSIVE JumpSrc(_, _, _, _)
JumpTerm(j) == IF j = "Break" THEN TBreak ELSE TContinue
\* the construct of a kind around the statements b
JumpWrap(kind, b, j) ==
    CASE kind = "while" -> StWhile(TBinOp("Lt", TLit(1), TLit(2)), b)
      [] kind = "for" -> StFor(SymX, ForRange(TLit(0), TLit(2)), b)
      [] kind = "if" -> StTerm(TIf(TBinOp("Lt", TLit(1), TLit(2)), TBlock(b, None),
                                   TBlock(<<StTerm(JumpTerm(j))>>, None)))
      [] kind = "block" -> StTerm(TBlock(b, None))
      [] kind = "match" ->
            StTerm(TMatch(TyE, TVariant(TyE, "A", <<>>),
                          <<<<Some("A"), <<>>, TBlock(b, None)>>,
                            <<Some("B"), <<>>, TBlock(<<>>, None)>>>>))
\* the statements inside the construct i - 1 of the nest
JumpSrc(w, i, j, after) ==
    IF i > Len(w) THEN <<StTerm(JumpTerm(j))>>
    ELSE <<JumpWrap(w[i], JumpSrc(w, i + 1, j, after), j)>>
         \o (IF after THEN <<StTerm(JumpTerm(j))>> ELSE <<>>)

SymO == <<<<"o">>, FALSE>>
SymY == <<<<"y">>, FALSE>>
ForInputs == [kind : {"for"}, k : 0..MaxComp, n : 0..MaxLit, mod : {"none", "pop", "direct"}]
ForLit(i) == TArray([e \in 1..i.n |-> ElemTerm(i.k, e)], ElemType(i.k))
ForLoop(i) ==
    StFor(SymX, ForArray(IF i.mod = "direct" THEN ForLit(i) ELSE TVar(SymA)),
          <<StTerm(TArrayMethod(TVar(SymO), "Push", TVar(SymX)))>>
          \o (IF i.mod = "pop"
              THEN <<StLet(SymY, ElemType(i.k), TArrayMethod(TVar(SymA), "Pop", None))>>
              ELSE <<>>))
ForBody(i) ==
    <<StLet(SymA, TArrayTy(ElemType(i.k)), ForLit(i)),
      StLet(SymO, TArrayTy(ElemType(i.k)), TArray(<<>>, ElemType(i.k))),
      ForLoop(i)>>

SymAA == <<<<"aa">>, FALSE>>
SymE == <<<<"e">>, FALSE>>
SymArr == <<<<"arr">>, TRUE>>
SymT == <<<<"t">>, TRUE>>
SymU == <<<<"u">>, TRUE>>
LvalSrcs == {"var", "lit", "empty", "block", "extern", "call", "if", "member", "idx", "idxlit"}
LvalInputs == [kind : {"lval"}, src : LvalSrcs, m : {"Push", "Pop", "Clear", "Len"}]
SetInputs ==
    [kind : {"set"}, l : {"var", "idx", "n", "t", "u", "arr"}, xk : 0..MaxComp,
     op : {"None", "Add"}]

LvalLit == TArray(<<TLit(1), TLit(2)>>, TI32)
LvalSrc(src) ==
    CASE src = "var" -> TVar(SymA)
      [] src = "lit" -> LvalLit
      [] src = "empty" -> TArray(<<>>, TI32)
      [] src = "block" -> TBlock(<<>>, LvalLit)
      [] src = "extern" -> TCall(None, FnGetArr, <<>>)
      [] src = "call" -> TCall(None, FnMk, <<>>)
      [] src = "if" -> TIf(TBinOp("Lt", TLit(1), TLit(2)), TVar(SymA), TVar(SymA))
      [] src = "member" -> TMember(TVar(SymE), SymArr)
      [] src = "idx" -> TArrayIdx(TVar(SymAA), TLit(0))
      [] src = "idxlit" -> TArrayIdx(TArray(<<LvalLit>>, TArrayTy(TI32)), TLit(0))
LvalDecls ==
    <<StLet(SymA, TArrayTy(TI32), LvalLit),
      StLet(SymAA, TArrayTy(TArrayTy(TI32)), TArray(<<LvalLit>>, TArrayTy(TI32))),
      StLet(SymE, TClassTy(TyE), TVariant(TyE, "A", <<>>)),
      StLet(SymQ, TI32, TLit(0))>>
LvalBody(i) ==
    Append(LvalDecls,
           StTerm(TArrayMethod(LvalSrc(i.src), i.m, IF i.m = "Push" THEN TLit(7) ELSE None)))
SetTarget(l) ==
    CASE l = "var" -> LVVar(SymQ)
      [] l = "idx" -> LVIdx(SymA, TLit(0))
      [] l = "n" -> LVMember(TVar(SymE), SymN)
      [] l = "t" -> LVMember(TVar(SymE), SymT)
      [] l = "u" -> LVMember(TVar(SymE), SymU)
      [] l = "arr" -> LVMember(TVar(SymE), SymArr)
SetBody(i) == Append(LvalDecls, StTerm(TSet(SetTarget(i.l), i.op, ElemTerm(i.xk, 5))))

ResInputs ==
    [kind : {"res"}, form : {"if", "match"}, k : 0..MaxComp,
     div : {"none", "first", "second"}, j : {"Return", "Break", "Continue"}]
ResBranch(i, b) ==
    IF (b = 1 /\ i.div = "first") \/ (b = 2 /\ i.div = "second")
    THEN (IF i.j = "Return" THEN TReturn(None) ELSE JumpTerm(i.j))
    ELSE ElemTerm(i.k, 100 * b)
ResTerm(i) ==
    IF i.form = "if"
    THEN TIf(TBinOp("Lt", TLit(1), TLit(2)), ResBranch(i, 1), ResBranch(i, 2))
    ELSE TMatch(TyE, TVariant(TyE, "A", <<>>),
                <<<<Some("A"), <<>>, ResBranch(i, 1)>>, <<Some("B"), <<>>, ResBranch(i, 2)>>>>)
ResBody(i) ==
    <<StLet(SymQ, TI32, TLit(0)),
      StWhile(TBinOp("Lt", TLit(1), TLit(2)),
              <<IF i.k = 0 THEN StTerm(ResTerm(i)) ELSE StLet(SymR, ElemType(i.k), ResTerm(i))>>)>>

WhileInputs ==
    [kind : {"while"}, cond : {"plain", "block", "if", "match"}, lim : 0..MaxLit]
WhileTest(i) ==
    CASE i.cond = "plain" -> TBinOp("Lt", TVar(SymQ), TLit(i.lim))
      [] i.cond = "block" ->
            TBlock(<<StLet(SymP, TI32, TVar(SymQ))>>, TBinOp("Lt", TVar(SymP), TLit(i.lim)))
      [] i.cond = "if" ->
            TBinOp("Lt", TIf(TBinOp("Lt", TLit(1), TLit(2)), TVar(SymQ), TLit(9)),
                   TLit(i.lim))
      [] i.cond = "match" ->
            TBinOp("Lt", TMatch(TyE, TVariant(TyE, "A", <<>>),
                                <<<<Some("A"), <<>>, TVar(SymQ)>>,
                                  <<Some("B"), <<>>, TLit(9)>>>>),
                   TLit(i.lim))
WhileBody(i) ==
    <<StLet(SymQ, TI32, TLit(0)),
      StWhile(WhileTest(i),
              <<StTerm(TSet(LVVar(SymQ), "Add", TLit(1))),
                StTerm(TIf(TBinOp("Gt", TVar(SymQ), TLit(MaxLit + 1)),
                           TBlock(<<StTerm(TBreak)>>, None), TBlock(<<>>, None)))>>)>>

LoopInputs == [kind : {"loop"}, form : {"while", "range", "array"}, n : 0..MaxStmt]
LoopStmt(i) ==
    CASE i.form = "while" -> StWhile(TBinOp("Lt", TLit(1), TLit(2)), FlowLets(SymP, i.n, 0))
      [] i.form = "range" ->
            StFor(SymX, ForRange(TLit(0), TLit(2)), FlowLets(SymP, i.n, 0))
      [] i.form = "array" -> StFor(SymX, ForArray(TVar(SymA)), FlowLets(SymP, i.n, 0))
LoopProgram(i) ==
    <<StLet(SymX, TI32, TLit(5)),
      StLet(SymA, TArrayTy(TI32), TArray(<<TLit(1), TLit(2)>>, TI32)),
      LoopStmt(i),
      StLet(SymY, TI32, TVar(SymX))>>

FlowBody(i) ==
    CASE i.kind = "if" -> IfBody(i)
      [] i.kind = "loop" -> LoopProgram(i)
      [] i.kind = "while" -> WhileBody(i)
      [] i.kind = "res" -> ResBody(i)
      [] i.kind = "jump" -> JumpSrc(i.w, 1, i.j, i.after)
      [] i.kind = "for" -> ForBody(i)
      [] i.kind = "lval" -> LvalBody(i)
      [] i.kind = "set" -> SetBody(i)
FlowItems(i) ==
    <<IEnum(TyE, <<<<"A", <<>>>>, <<"B", <<>>>>>>, i.kind \in {"lval", "set"},
            IF i.kind \in {"lval", "set"}
            THEN <<<<SymArr, TArrayTy(TI32)>>, <<SymN, TI32>>,
                   <<SymT, TTupleTy(<<TI32, TI32>>)>>, <<SymU, TUnit>>>>
            ELSE <<>>,
            <<>>),
      IExternFn(FnGetArr, TArrayTy(TI32), "getArr"),
      IFn(FnMk, <<>>, TArrayTy(TI32), LvalLit, FALSE),
      IFn(FnMain, <<>>, TUnit, TBlock(FlowBody(i), None), TRUE)>>
FlowEnv(c) ==
    [fns |-> <<>>, fields |-> <<>>, ext |-> <<>>, copy |-> CxtPredef(c, "ArrayCopy")]

FlowInit ==
    /\ pc = "decl"
    /\ inp \in IfInputs \cup JumpInputs \cup ForInputs \cup LvalInputs \cup SetInputs
                \cup ResInputs \cup WhileInputs \cup LoopInputs
    /\ cxt = CxtNew
    /\ rt = RtInit
    /\ obs = [op |-> "none", n |-> 0, pre |-> <<>>, vars |-> <<>>]

\* declare_p1, declare_p2 and the start of Fn::lower of main
FlowDeclare ==
    /\ pc = "decl"
    /\ cxt' = FnEnter(FlowItems(inp)[4],
                      DeclareP2(FlowItems(inp),
                                DeclareP1(FlowItems(inp), 1, CxtNew), "m").c).c
    /\ obs' = [obs EXCEPT !.op = "decl"]
    /\ pc' = "body"
    /\ UNCHANGED <<inp, rt>>

\* Term::lower of the body of main, one turn of the loop over its statements
FlowStmt ==
    /\ pc = "body"
    /\ obs.n < Len(FlowBody(inp))
    /\ cxt.panic = ""
    /\ cxt' = LowerStmt(FlowBody(inp)[obs.n + 1], cxt)
    /\ obs' = [op |-> "stmt", n |-> obs.n + 1, pre |-> cxt.block, vars |-> cxt.vars]
    /\ UNCHANGED <<pc, inp, rt>>

\* the statements main lowered to are run (the programs whose loops end)
FlowRun ==
    /\ pc = "body"
    /\ inp.kind \in {"if", "for", "while"}
    /\ obs.n = Len(FlowBody(inp))
    /\ cxt.panic = ""
    /\ rt' = ExecS(cxt.block, 1, rt, FlowEnv(cxt))
    /\ obs' = [obs EXCEPT !.op = "run"]
    /\ pc' = "done"
    /\ UNCHANGED <<inp, cxt>>

FlowNext == FlowDeclare \/ FlowStmt \/ FlowRun

SpecFlow == FlowInit /\ [][FlowNext]_vars

(***************************************************************************)
(* Claims about control flow, checked under SpecFlow.                      *)
(***************************************************************************)
\* the statements the last lowered statement appended
FlowNew == SubSeq(cxt.block, Len(obs.pre) + 1, Len(cxt.block))
\* the statements of a branch: its own, then one store per result local
IsBranch(blk, raw, n, k, v, lets) ==
    /\ Len(blk) = n + k
    /\ \A j \in 1..n : blk[j].tag = "Let" /\ blk[j].n = Raw(raw) /\ blk[j].x = JLitInt(v + j)
    /\ \A j \in 1..k :
          blk[n + j] = SSet(LVar(lets[j].v), "None", JLitInt(v + 10 * (j - 1)))

\* C14: lowering  if c then A else B  as a value appends to the block, in
\* this order: the statements c spilled, one Let without initializer per
\* component of the result, then one If whose then-block is A's statements
\* followed by one Set per result local and whose else-block is B's statements
\* followed by one Set per result local; the value is the list of the result
\* locals; and no statement of A or B is outside the If.
C14_IfOrder ==
    (inp.kind = "if" /\ pc = "body" /\ obs.n = 2 /\ cxt.panic = "") =>
        LET new == FlowNew
            lets == SubSeq(new, inp.sc + 1, inp.sc + inp.k)
            if == new[inp.sc + inp.k + 1]
        IN  /\ SubSeq(cxt.block, 1, Len(obs.pre)) = obs.pre
            /\ Len(new) = inp.sc + inp.k + 1 + inp.k
            /\ \A j \in 1..inp.sc :
                  new[j].tag = "Let" /\ new[j].n = Raw("p") /\ new[j].x = JLitInt(j)
            /\ \A j \in 1..inp.k :
                  /\ lets[j].tag = "Let" /\ lets[j].x = None
                  /\ \A h \in 1..inp.k : h # j => lets[h].v # lets[j].v
            /\ if.tag = "If"
            /\ IsBranch(if.a, "a", inp.sa, inp.k, 100, lets)
            /\ IsBranch(if.b, "b", inp.sb, inp.k, 200, lets)
            /\ \A j \in 1..inp.k :
                  /\ new[inp.sc + inp.k + 1 + j].tag = "Let"
                  /\ new[inp.sc + inp.k + 1 + j].n = Raw("r")
                  /\ new[inp.sc + inp.k + 1 + j].x = JVarT(lets[j].v, lets[j].ty)
            /\ \A j \in 1..Len(cxt.block) :
                  cxt.block[j].tag = "Let" => cxt.block[j].n \notin {Raw("a"), Raw("b")}
C14_Witness ==
    /\ inp.kind = "if" /\ pc = "body" /\ obs.n = 2 /\ cxt.panic = ""
    /\ inp.sc = 1 /\ inp.sa = 2 /\ inp.sb = 1 /\ inp.k = 2
    /\ Len(FlowNew) = 6
    /\ FlowNew[4].tag = "If" /\ Len(FlowNew[4].a) = 4 /\ Len(FlowNew[4].b) = 3

\* the statements of a block with every label replaced by the number of loops
\* around the loop it names (0: no loop around the jump has this label), and a
\* loop whose label is the one of a loop around it replaced by <<"dup">>
RECURSIVE NormOne(_, _), NormAll(_, _, _)
LastIndex(stack, k) ==
    IF \A h \in 1..Len(stack) : stack[h] # k THEN 0
    ELSE CHOOSE h \in 1..Len(stack) : stack[h] = k /\ \A g \in (h + 1)..Len(stack) : stack[g] # k
NormOne(s, stack) ==
    CASE s.tag \in {"Break", "Continue"} -> <<s.tag, LastIndex(stack, s.k)>>
      [] s.tag \in {"While", "RangeFor"} ->
            IF LastIndex(stack, s.k) # 0 THEN <<"dup">>
            ELSE <<s.tag, NormAll(s.block, 1, Append(stack, s.k))>>
      [] s.tag = "If" -> <<"If", NormAll(s.a, 1, stack), NormAll(s.b, 1, stack)>>
      [] s.tag = "Switch" ->
            <<"Switch", [h \in 1..Len(s.branches) |-> NormAll(s.branches[h][2], 1, stack)],
              NormAll(s.default, 1, stack)>>
      [] OTHER -> <<s.tag>>
NormAll(ss, i, stack) ==
    IF i > Len(ss) THEN <<>> ELSE <<NormOne(ss[i], stack)>> \o NormAll(ss, i + 1, stack)

\* what the source says the nest lowers to: every jump names the innermost of
\* the depth loops around it
RECURSIVE JumpIn(_, _, _, _, _)
JumpOut(w, i, j, after, depth) ==
    CASE w[i] = "while" -> <<<<"While", JumpIn(w, i + 1, j, after, depth + 1)>>>>
      [] w[i] = "for" -> <<<<"RangeFor", JumpIn(w, i + 1, j, after, depth + 1)>>>>
      [] w[i] = "if" -> <<<<"If", JumpIn(w, i + 1, j, after, depth), <<<<j, depth>>>>>>>>
      [] w[i] = "block" -> JumpIn(w, i + 1, j, after, depth)
      [] w[i] = "match" -> <<<<"Switch", <<JumpIn(w, i + 1, j, after, depth), <<>>>>, <<>>>>>>
JumpIn(w, i, j, after, depth) ==
    IF i > Len(w) THEN <<<<j, depth>>>>
    ELSE JumpOut(w, i, j, after, depth) \o (IF after THEN <<<<j, depth>>>> ELSE <<>>)
\* the n-th statement of the body, and whether a jump of it has no loop around it
JumpStmt(i, n) ==
    IF n = 1 /\ Len(i.w) > 0 THEN JumpOut(i.w, 1, i.j, i.after, 0) ELSE <<<<i.j, 0>>>>
RECURSIVE Bare(_, _)
Bare(tree, i) ==
    IF i > Len(tree) THEN FALSE
    ELSE \/ tree[i][1] \in {"Break", "Continue"} /\ tree[i][2] = 0
         \/ tree[i][1] \in {"While", "RangeFor"} /\ Bare(tree[i][2], 1)
         \/ tree[i][1] = "If" /\ (Bare(tree[i][2], 1) \/ Bare(tree[i][3], 1))
         \/ tree[i][1] = "Switch" /\ (\E h \in 1..Len(tree[i][2]) : Bare(tree[i][2][h], 1))
         \/ tree[i][1] = "Switch" /\ Bare(tree[i][3], 1)
         \/ Bare(tree, i + 1)
JumpLowered == inp.kind = "jump" /\ pc = "body" /\ obs.n >= 1

\* C15: a break or continue is lowered to a Break or Continue that carries the
\* label of the innermost loop around it, also through if branches, match arms
\* and blocks, which have no label; loops inside one another have different
\* labels; and after an inner loop a jump in the body of the outer loop
\* carries the label of the outer loop.
C15_InnermostLabel ==
    (JumpLowered /\ ~Bare(JumpStmt(inp, obs.n), 1)) =>
        /\ cxt.panic = ""
        /\ NormAll(FlowNew, 1, <<>>) = JumpStmt(inp, obs.n)
C15_Witness ==
    /\ JumpLowered /\ cxt.panic = ""
    /\ inp.w = <<"while", "for">> /\ inp.after /\ inp.j = "Break"
    /\ Len(FlowNew) = 1
    /\ FlowNew[1].tag = "While"
    /\ FlowNew[1].block[1].tag = "RangeFor"
    /\ FlowNew[1].block[1].block[1] = SBreak(FlowNew[1].block[1].k)
    /\ FlowNew[1].block[2] = SBreak(FlowNew[1].k)
    /\ FlowNew[1].k # FlowNew[1].block[1].k

\* C20: a break or continue with no loop around it is a fatal abort, and no
\* Break or Continue statement is appended for it.
C20_NoLoopAborts ==
    (JumpLowered /\ Bare(JumpStmt(inp, obs.n), 1)) =>
        /\ cxt.panic = (IF inp.j = "Break" THEN "'break' outside of loop"
                        ELSE "'continue' outside of loop")
        /\ ~Bare(NormAll(cxt.block, 1, <<>>), 1)
C20_Witness ==
    /\ JumpLowered /\ obs.n = 2
    /\ inp.w = <<"while">> /\ inp.j = "Continue"
    /\ cxt.panic = "'continue' outside of loop"
    /\ Len(cxt.block) = 1 /\ cxt.block[1].tag = "While"

\* the locals of o, the loop the for statement lowered to, and the array terms
\* the loop is over
OVars == ToVec(CxtVar(cxt, SymO))
OLen == rt.store[OVars[Len(OVars)][1]][2]
OArr(j) == rt.heap[rt.store[OVars[j][1]][2]]
ForStmt == FlowNew[Len(FlowNew)]
ForArrTerms ==
    IF inp.mod = "direct"
    THEN [j \in 1..inp.k |->
             JArrayLit([e \in 1..inp.n |-> JLitInt(e + 10 * (j - 1))], JArray(JI32))]
         \o <<JLitInt(inp.n)>>
    ELSE [j \in 1..(inp.k + 1) |->
             JVarT(ToVec(CxtVar(cxt, SymA))[j], IF j <= inp.k THEN JArray(JI32) ELSE JI32)]

\* C16: a for over a dynamic array runs its body once for each index from 0
\* up to the length, in increasing order, the length being evaluated once when
\* the loop is entered; every turn binds one local per data component, read
\* from the backing array of that component at the index; and the length is
\* never indexed.
C16_ForArray ==
    /\ (inp.kind = "for" /\ pc = "body" /\ obs.n = 3) =>
          /\ cxt.panic = ""
          /\ ForStmt.tag = "RangeFor"
          /\ ForStmt.a = JLitInt(0)
          /\ ForStmt.b = ForArrTerms[inp.k + 1]
          /\ Len(ForStmt.block) > inp.k
          /\ \A j \in 1..inp.k :
                /\ ForStmt.block[j].tag = "Let"
                /\ ForStmt.block[j].n = Raw("x")
                /\ ForStmt.block[j].x = JIndex(ForArrTerms[j], JVarT(ForStmt.v, JI32), JI32)
          /\ \A j \in 1..Len(ForStmt.block) :
                ForStmt.block[j].tag = "Let" =>
                    /\ ForStmt.block[j].n = Raw("x") => j <= inp.k
                    /\ ForStmt.block[j].x.tag = "Index" => ForStmt.block[j].x.arr # ForStmt.b
    /\ (inp.kind = "for" /\ pc = "done") =>
          /\ rt.ctl = "run"
          /\ OLen = inp.n
          /\ \A j \in 1..inp.k : \A e \in 1..inp.n : OArr(j)[e] = IntV(e + 10 * (j - 1))
C16_Witness ==
    /\ inp.kind = "for" /\ pc = "done"
    /\ inp.k = 2 /\ inp.n = 2 /\ inp.mod = "pop"
    /\ OLen = 2
    /\ OArr(2)[1] = IntV(11) /\ OArr(2)[2] = IntV(12)
    /\ rt.store[ToVec(CxtVar(cxt, SymA))[3][1]] = IntV(0)

(***************************************************************************)
(* SpecTy: a type is lowered in the context of a module that declares the  *)
(* enum E, with a payload (E is a wrapper class) or without.               *)
(***************************************************************************)
TyScalar == {<<"I32">>, <<"I64">>, <<"Bool">>, <<"Str">>, TClassTy(TyE)}
TyTuples(S) == UNION {{TTupleTy(ts) : ts \in [1..n -> S]} : n \in 0..MaxComp}
TyFlat == TyScalar \cup {TUnit} \cup TyTuples(TyScalar \cup {TUnit})
TyArr == {TArrayTy(t) : t \in TyFlat} \cup {TArrayTy(TArrayTy(t)) : t \in TyFlat}
TyNest ==
    {TTupleTy(<<a, t>>) : a \in TyArr, t \in TyScalar \cup {TUnit}}
    \cup {TArrayTy(TTupleTy(<<t, TArrayTy(u)>>)) : t \in TyFlat, u \in TyScalar}
TyInputs == [kind : {"ty"}, ty : TyFlat \cup TyArr \cup TyNest, wrapped : BOOLEAN]
TyItems(i) ==
    <<IEnum(TyE, <<<<"A", IF i.wrapped THEN <<TI32>> ELSE <<>>>>, <<"B", <<>>>>>>,
            FALSE, <<>>, <<>>)>>

TyInit ==
    /\ pc = "decl"
    /\ inp \in TyInputs
    /\ cxt = CxtNew
    /\ rt = RtInit
    /\ obs = [op |-> "none", out |-> MEmpty]

\* declare_p1 and declare_p2 over the items of the module
TyDeclare ==
    /\ pc = "decl"
    /\ cxt' = DeclareP2(TyItems(inp), DeclareP1(TyItems(inp), 1, CxtNew), "m").c
    /\ obs' = [obs EXCEPT !.op = "decl"]
    /\ pc' = "lower"
    /\ UNCHANGED <<inp, rt>>

\* Type::lower
TyLower ==
    /\ pc = "lower"
    /\ obs' = [op |-> "lower", out |-> TypeLower(inp.ty, cxt)]
    /\ pc' = "lowered"
    /\ UNCHANGED <<inp, cxt, rt>>

TyNext == TyDeclare \/ TyLower

SpecTy == TyInit /\ [][TyNext]_vars

(***************************************************************************)
(* Claim about lowered types, checked under SpecTy.                        *)
(***************************************************************************)
RECURSIVE Flat(_, _), FlatAll(_, _, _)
\* the one component of a scalar
FlatScalar(t, c) ==
    CASE t = <<"I32">> -> JI32
      [] t = <<"I64">> -> JI64
      [] t = <<"Bool">> -> JBool
      [] t = <<"Str">> -> JString
      [] t[1] = "Class" ->
            JClassTy(IF CxtClass(c, t[2]) \in DOMAIN c.enum_wrappers
                     THEN c.enum_wrappers[CxtClass(c, t[2])] ELSE CxtClass(c, t[2]))
FlatAll(ts, i, c) == IF i > Len(ts) THEN <<>> ELSE Flat(ts[i], c) \o FlatAll(ts, i + 1, c)
Flat(t, c) ==
    IF t \in TyScalar THEN <<FlatScalar(t, c)>>
    ELSE IF t = TUnit THEN <<>>
    ELSE IF t[1] = "Tuple" THEN FlatAll(t[2], 1, c)
    ELSE [i \in 1..Len(Flat(t[2], c)) |-> JArray(Flat(t[2], c)[i])] \o <<JI32>>

\* C17: lowering a type flattens it: Unit has no component, a scalar has one,
\* a tuple has the components of its elements in their order, and an array of
\* t has one Array(u) for every component u of t, in order, and then exactly
\* one I32, the length; so an array of a tuple of N scalars has N + 1
\* components, and Array<(I32, Bool)> is [Array(I32), Array(Bool), I32].
C17_Flatten ==
    pc = "lowered" =>
        /\ ToVec(obs.out) = Flat(inp.ty, cxt)
        /\ inp.ty = TUnit => MLen(obs.out) = 0
        /\ inp.ty \in TyScalar => MLen(obs.out) = 1
        /\ inp.ty \in {TArrayTy(t) : t \in TyTuples(TyScalar)} =>
              /\ MLen(obs.out) = Len(inp.ty[2][2]) + 1
              /\ ToVec(obs.out)[Len(inp.ty[2][2]) + 1] = JI32
              /\ \A j \in 1..Len(inp.ty[2][2]) : ToVec(obs.out)[j][1] = "Array"
        /\ inp.ty = TArrayTy(TTupleTy(<<<<"I32">>, <<"Bool">>>>)) =>
              ToVec(obs.out) = <<JArray(JI32), JArray(JBool), JI32>>
C17_Witness ==
    /\ pc = "lowered"
    /\ inp.ty = TArrayTy(TTupleTy(<<<<"I32">>, <<"Bool">>>>))
    /\ obs.out = Tuple(<<JArray(JI32), JArray(JBool), JI32>>)

(***************************************************************************)
(* SpecExt: a module that declares the enum E and one function f, extern   *)
(* or not, whose return type is drawn from the types above.                *)
(***************************************************************************)
ExtInputs == [kind : {"ext"}, ty : TyFlat \cup TyArr \cup TyNest, ext : BOOLEAN]
ExtItems(i) ==
    <<IEnum(TyE, <<<<"A", <<>>>>, <<"B", <<>>>>>>, FALSE, <<>>, <<>>),
      IF i.ext THEN IExternFn(FnF, i.ty, "f")
      ELSE IFn(FnF, <<>>, i.ty, TBlock(<<>>, None), FALSE)>>

ExtInit ==
    /\ pc = "decl"
    /\ inp \in ExtInputs
    /\ cxt = CxtNew
    /\ rt = RtInit
    /\ obs = [op |-> "none", mappings |-> <<>>]

\* declare_p1 over the items of the module
ExtDeclareP1 ==
    /\ pc = "decl"
    /\ cxt' = DeclareP1(ExtItems(inp), 1, cxt)
    /\ obs' = [obs EXCEPT !.op = "decl"]
    /\ pc' = "decl2"
    /\ UNCHANGED <<inp, rt>>

\* declare_p2 over the items of the module
ExtDeclared(d) ==
    /\ cxt' = d.c
    /\ obs' = [op |-> "decl2", mappings |-> d.mod.mappings]
ExtDeclareP2 ==
    /\ pc = "decl2"
    /\ ExtDeclared(DeclareP2(ExtItems(inp), cxt, "m"))
    /\ pc' = "declared"
    /\ UNCHANGED <<inp, rt>>

ExtNext == ExtDeclareP1 \/ ExtDeclareP2

SpecExt == ExtInit /\ [][ExtNext]_vars

(***************************************************************************)
(* Claim about declared return shapes, checked under SpecExt.              *)
(***************************************************************************)
ExtShape == Flat(inp.ty, cxt)
ExtIsJavaArray == Len(ExtShape) = 2 /\ ExtShape[1][1] = "Array"

\* C18: in declare_p2 an extern function whose lowered return shape has two
\* or more components is a fatal abort with the message "Extern function
\* can't return tuple", unless the shape has exactly two components and the
\* first is an Array: then the recorded shape is that Array alone.  An extern
\* function with no or one component, and every function that is not extern,
\* is recorded with its whole lowered shape and does not abort.
C18_ExternShape ==
    pc = "declared" =>
        IF inp.ext /\ Len(ExtShape) >= 2 /\ ~ExtIsJavaArray
        THEN cxt.panic = "Extern function can't return tuple"
        ELSE /\ cxt.panic = ""
             /\ CxtFun(cxt, FnF) \in DOMAIN cxt.fn_ret_tys
             /\ cxt.fn_ret_tys[CxtFun(cxt, FnF)] =
                   IF inp.ext /\ ExtIsJavaArray THEN One(ExtShape[1])
                   ELSE TypeLower(inp.ty, cxt)
C18_Witness ==
    /\ pc = "declared"
    /\ inp.ext
    /\ inp.ty = TArrayTy(TI32)
    /\ cxt.panic = ""
    /\ cxt.fn_ret_tys[CxtFun(cxt, FnF)] = One(JArray(JI32))

\* what the array expression of an lval program lowers its length to
LvalKind(src) ==
    CASE src \in {"var", "call", "if"} -> "Var"
      [] src \in {"extern", "member"} -> "Prop"
      [] src = "idx" -> "Idx"
      [] OTHER -> "None"
LvalMessage(m) ==
    CASE m = "Push" -> "push() requires an lvalue"
      [] m = "Pop" -> "pop() requires an lvalue"
      [] m = "Clear" -> "clear() requires an lvalue"
\* the operation each method applies to the length
LvalOp(m) == CASE m = "Push" -> "Add" [] m = "Pop" -> "Sub" [] m = "Clear" -> "None"
\* the number of components of the member a set program assigns to
SetComps(l) == CASE l = "n" -> 1 [] l \in {"t", "arr"} -> 2 [] l = "u" -> 0
LvalDone == pc = "body" /\ obs.op = "stmt" /\ obs.n = Len(LvalDecls) + 1

\* C19: push, pop and clear abort with their own message when the array they
\* are applied to does not lower to an l-value, and otherwise store to the
\* length through a variable, an index into an l-value, or a property: a
\* literal, an empty literal, a block ending in a literal and an index into a
\* literal are the arrays that abort.  An assignment to a member of more than
\* one component aborts, and one to a member of one component, of a value of
\* one component, is one store through a property.
C19_LvalueMisuse ==
    /\ (LvalDone /\ inp.kind = "lval" /\ inp.m # "Len") =>
          IF LvalKind(inp.src) = "None"
          THEN cxt.panic = LvalMessage(inp.m)
          ELSE /\ cxt.panic = ""
               /\ \E j \in 1..Len(FlowNew) :
                     /\ FlowNew[j].tag = "Set"
                     /\ FlowNew[j].l.tag = LvalKind(inp.src)
                     /\ FlowNew[j].op = LvalOp(inp.m)
                     /\ \A h \in 1..(j - 1) : FlowNew[h].tag # "Set"
    /\ (LvalDone /\ inp.kind = "lval" /\ inp.m = "Len") => cxt.panic = ""
    /\ (LvalDone /\ inp.kind = "set" /\ inp.l \in {"n", "t", "u", "arr"}) =>
          /\ SetComps(inp.l) > 1 => cxt.panic = "backend: one object required"
          /\ (SetComps(inp.l) = 1 /\ inp.xk = 1) =>
                /\ cxt.panic = ""
                /\ Len(FlowNew) = 1
                /\ FlowNew[1].tag = "Set"
                /\ FlowNew[1].l.tag = "Prop"
                /\ FlowNew[1].l.b = <<"var", CxtVar(cxt, SymN).v[1]>>
                /\ FlowNew[1].op = inp.op
                /\ FlowNew[1].x = JLitInt(5)

\* a push onto an element of a literal array of arrays has aborted
C19_Witness ==
    /\ LvalDone
    /\ inp.kind = "lval"
    /\ inp.src = "idxlit"
    /\ inp.m = "Push"
    /\ cxt.panic = "push() requires an lvalue"

(***************************************************************************)
(* Claims about the values of pop and push, checked under SpecArr.         *)
(***************************************************************************)
\* C21: the value of a pop is the element that was at index length-1 right
\* before that pop: a single pop bound by a let yields the last element, and
\* two pops of the same array that are the arguments of one call, or the
\* components of one tuple, yield the last element and then the
\* second-to-last element.
C21_PopValue ==
    /\ (obs.op = "pop" /\ obs.pre.len >= 1) =>
          /\ rt.ctl = "run"
          /\ obs.val = [j \in 1..inp.k |-> obs.pre.arrs[j][obs.pre.len]]
    /\ (obs.op \in {"popcall", "poptuple"} /\ obs.pre.len >= 2) =>
          /\ rt.ctl = "run"
          /\ obs.val = <<obs.pre.arrs[1][obs.pre.len], obs.pre.arrs[1][obs.pre.len - 1]>>

\* C22: after a push that ran, the element at index pre-length of every
\* component is the matching component of the pushed value as it was before
\* the push: the literal of the i-th push, the pre-push length for
\* a.push(a.len()), and 7 plus the pre-push length for a.push(7 + a.len()).
C22_PushValue ==
    (obs.op \in {"push", "pushlen", "pushsum"} /\ rt.ctl = "run") =>
        \A j \in 1..inp.k :
            AArr(cxt, rt, j)[obs.pre.len + 1] =
                CASE obs.op = "push" -> IntV(100 + obs.pushes + 10 * (j - 1))
                  [] obs.op = "pushlen" -> IntV(obs.pre.len)
                  [] obs.op = "pushsum" -> IntV(7 + obs.pre.len)

\* the block of the loop of a res program, the If or Switch in it, the
\* number of result locals declared before it, and the block of a branch
ResBlock == FlowNew[Len(FlowNew)].block
ResAt == CHOOSE n \in 1..Len(ResBlock) : ResBlock[n].tag \in {"If", "Switch"}
ResVars == [j \in 1..(ResAt - 1) |-> ResBlock[j].v]
ResArm(b) ==
    IF ResBlock[ResAt].tag = "If"
    THEN (IF b = 1 THEN ResBlock[ResAt].a ELSE ResBlock[ResAt].b)
    ELSE ResBlock[ResAt].branches[b][2]
ResYields(i, b) == ~((b = 1 /\ i.div = "first") \/ (b = 2 /\ i.div = "second"))

\* C23: for an if with both branches and for a match, used as a value, the
\* result locals declared before the If or Switch are as many as the
\* components of the value of every branch that yields one, and the block of
\* such a branch ends with exactly one store to each result local, of the
\* matching component, also when the other branch ends in return, break or
\* continue.
C23_ResultVars ==
    (inp.kind = "res" /\ pc = "body" /\ obs.n = 2) =>
        /\ cxt.panic = ""
        /\ \A j \in 1..(ResAt - 1) : ResBlock[j].tag = "Let" /\ ResBlock[j].x = None
        /\ \A b \in 1..2 :
              ResYields(inp, b) =>
                  /\ Len(ResVars) = inp.k
                  /\ ResArm(b) = [j \in 1..inp.k |->
                                    SSet(LVar(ResVars[j]), "None",
                                         JLitInt(100 * b + 10 * (j - 1)))]

\* C24: the condition of a while loop is evaluated in full before every
\* turn, the statements its lowering emits included: the loop of a while
\* program ends normally with q equal to lim, however the condition q < lim
\* is written.
C24_WhileCond ==
    (inp.kind = "while" /\ pc = "done") =>
        /\ rt.ctl = "run"
        /\ rt.store[ToVec(CxtVar(cxt, SymQ))[1][1]] = IntV(inp.lim)

\* C25: lowering a loop statement (while, for over a range, for over an
\* array) leaves the list of variable bindings as it was before the
\* statement, so the statement after the loop of a loop program, let y = x,
\* reads the x declared before the loop.
C25_LoopScope ==
    /\ (inp.kind = "loop" /\ pc = "body" /\ obs.n = 3) =>
          /\ cxt.panic = ""
          /\ cxt.vars = obs.vars
    /\ (inp.kind = "loop" /\ pc = "body" /\ obs.n = 4) =>
          /\ cxt.panic = ""
          /\ cxt.vars[1][1] = SymX
          /\ FlowNew = <<SLet(Raw("y"), JI32, ToVec(CxtVar(cxt, SymY))[1],
                              JVarT(cxt.vars[1][2].v[1], JI32))>>

(***************************************************************************)
(* Specification SpecCxt: the lowering context by itself.  Starting from   *)
(* Cxt::new, the actions are the calls the lowering makes on it: scopes    *)
(* and blocks are pushed and popped (properly nested), statements are      *)
(* appended to the buffer, and variables, functions and classes are bound  *)
(* to fresh ids.  obs keeps what the claims compare against: for every     *)
(* open scope or block the lists at its push and the statements appended   *)
(* since, the context before the last call, what the last pop_block        *)
(* returned, and the ids in allocation order.                              *)
(***************************************************************************)
MaxDepth == 2       \* scopes and blocks open at once
MaxAppend == 3      \* statements appended to the buffer
MaxFresh == 4       \* ids allocated
MaxCalls == 6       \* calls made on the context

CxFrame(kind, c) ==
    [kind |-> kind, block |-> c.block, vars |-> c.vars, fn_ids |-> c.fn_ids,
     types |-> c.types, own |-> <<>>]
CxTop == obs.stack[Len(obs.stack)]
CxRest == SubSeq(obs.stack, 1, Len(obs.stack) - 1)
\* the open frames after the statements a pop_block returned left the buffer
CxWithout(stack, gone) ==
    [j \in 1..Len(stack) |->
        [stack[j] EXCEPT !.own = SelectSeq(@, LAMBDA s : \A h \in 1..Len(gone) : gone[h] # s)]]

CxInit ==
    /\ pc = "cxt"
    /\ inp \in [public : BOOLEAN]
    /\ cxt = CxtNew
    /\ rt = RtInit
    /\ obs = [op |-> "new", stack |-> <<>>, ret |-> <<>>, frame |-> CxFrame("none", CxtNew),
              prev |-> CxtNew, ids |-> <<>>, n |-> 0, calls |-> 0]

CxOpen(kind, c, ids) ==
    /\ obs.calls < MaxCalls
    /\ cxt' = c
    /\ obs' = [obs EXCEPT !.op = kind, !.calls = @ + 1, !.stack = Append(@, CxFrame(kind, cxt)),
                          !.prev = cxt, !.ids = @ \o ids]
    /\ UNCHANGED <<pc, inp, rt>>
\* Cxt::push
CxPush ==
    /\ Len(obs.stack) < MaxDepth
    /\ CxOpen("scope", CxtPush(cxt), <<>>)
\* Cxt::push_block
CxPushBlock ==
    /\ Len(obs.stack) < MaxDepth
    /\ CxOpen("block", CxtPushBlock(cxt), <<>>)
\* let k = cxt.fresh_block(); cxt.push_loop(k)
CxPushLoop ==
    /\ Len(obs.stack) < MaxDepth
    /\ cxt.next < MaxFresh
    /\ CxOpen("loop", CxtPushLoop(Bump(cxt), FreshId(cxt)), <<FreshId(cxt)>>)
\* Cxt::pop
CxPop ==
    /\ Len(obs.stack) > 0
    /\ CxTop.kind = "scope"
    /\ obs.calls < MaxCalls
    /\ cxt' = CxtPop(cxt)
    /\ obs' = [obs EXCEPT !.op = "pop", !.calls = @ + 1, !.stack = CxRest, !.frame = CxTop, !.prev = cxt]
    /\ UNCHANGED <<pc, inp, rt>>
\* Cxt::pop_block
CxPopBlock ==
    /\ Len(obs.stack) > 0
    /\ CxTop.kind \in {"block", "loop"}
    /\ obs.calls < MaxCalls
    /\ cxt' = CxtPopBlock(cxt).c
    /\ obs' = [obs EXCEPT !.op = "pop_block", !.calls = @ + 1, !.stack = CxWithout(CxRest, CxTop.own),
                          !.frame = CxTop, !.prev = cxt, !.ret = CxtPopBlock(cxt).stmts]
    /\ UNCHANGED <<pc, inp, rt>>
\* cxt.block.push(stmt)
CxStmt ==
    /\ obs.n < MaxAppend
    /\ obs.calls < MaxCalls
    /\ cxt' = PushStmt(cxt, STerm(JLitInt(obs.n + 1)))
    /\ obs' = [obs EXCEPT !.op = "stmt", !.calls = @ + 1, !.n = @ + 1, !.prev = cxt,
                          !.stack = [j \in 1..Len(@) |->
                                        [@[j] EXCEPT !.own = Append(@, STerm(JLitInt(obs.n + 1)))]]]
    /\ UNCHANGED <<pc, inp, rt>>
CxBound(op, c, id) ==
    /\ cxt.next < MaxFresh
    /\ obs.calls < MaxCalls
    /\ cxt' = c
    /\ obs' = [obs EXCEPT !.op = op, !.calls = @ + 1, !.prev = cxt, !.ids = Append(@, id)]
    /\ UNCHANGED <<pc, inp, rt>>
\* let var = cxt.fresh_var(public); cxt.tys.insert(var, ty); cxt.vars.push((x, vars))
CxBindVar ==
    CxBound("var",
            [Bump(cxt) EXCEPT !.tys = Put(@, <<FreshId(cxt), inp.public>>, JI32),
                              !.vars = Append(@, <<SymX, One(<<FreshId(cxt), inp.public>>)>>)],
            FreshId(cxt))
\* let id = cxt.fresh_fn(); cxt.fn_ids.push((f, id)); cxt.fn_ret_tys.insert(id, rtys)
CxBindFn ==
    CxBound("fn",
            [Bump(cxt) EXCEPT !.fn_ids = Append(@, <<FnF, FreshId(cxt)>>),
                              !.fn_ret_tys = Put(@, FreshId(cxt), One(JI32))],
            FreshId(cxt))
\* let class = cxt.fresh_class(); cxt.types.push((tid, class))
CxBindType ==
    CxBound("class", [Bump(cxt) EXCEPT !.types = Append(@, <<TyE, FreshId(cxt)>>)],
            FreshId(cxt))

CxNext ==
    CxPush \/ CxPushBlock \/ CxPushLoop \/ CxPop \/ CxPopBlock \/ CxStmt \/ CxBindVar
        \/ CxBindFn \/ CxBindType

SpecCxt == CxInit /\ [][CxNext]_vars

\* C26: a pop_block returns the statements appended since its matching
\* push_block or push_loop that no inner pop_block has returned, in the
\* order they were appended, and leaves the buffer as it was at that push.
C26_PopBlock ==
    obs.op = "pop_block" =>
        /\ obs.ret = obs.frame.own
        /\ cxt.block = obs.frame.block
        /\ Len(cxt.blocks) = Len(obs.prev.blocks) - 1

\* an inner block has returned the second statement while an outer block
\* that holds the first one is still open
C26_Witness ==
    /\ obs.op = "pop_block"
    /\ obs.ret = <<STerm(JLitInt(2))>>
    /\ Len(obs.stack) = 1
    /\ obs.stack[1].own = <<STerm(JLitInt(1))>>
    /\ cxt.block = <<STerm(JLitInt(1))>>

\* C27: a pop (by itself or as part of pop_block) leaves the variable,
\* function and class binding lists as they were at the matching push, so
\* every lookup gives what it gave then, and changes nothing but these lists,
\* the scope stack and, for pop_block, the buffer and the block stack: the id
\* counter, the type table of the variables, the return shapes and the
\* enum wrappers are those of before the pop.
C27_PopRestores ==
    obs.op \in {"pop", "pop_block"} =>
        /\ cxt.vars = obs.frame.vars
        /\ cxt.fn_ids = obs.frame.fn_ids
        /\ cxt.types = obs.frame.types
        /\ RFind(cxt.vars, SymX) = RFind(obs.frame.vars, SymX)
        /\ cxt.scopes = SubSeq(obs.prev.scopes, 1, Len(obs.prev.scopes) - 1)
        /\ cxt.next = obs.prev.next
        /\ cxt.tys = obs.prev.tys
        /\ cxt.fn_ret_tys = obs.prev.fn_ret_tys
        /\ cxt.enum_wrappers = obs.prev.enum_wrappers
        /\ cxt.current_fn = obs.prev.current_fn
        /\ cxt.items = obs.prev.items
        /\ cxt.predefs = obs.prev.predefs
        /\ obs.op = "pop" => cxt.block = obs.prev.block /\ cxt.blocks = obs.prev.blocks

\* a pop has discarded an inner binding of x that shadowed an outer one, and
\* a function and a class bound in the scope; the ids stay in the tables
C27_Witness ==
    /\ obs.op = "pop"
    /\ Len(cxt.vars) = 1
    /\ Len(obs.prev.vars) = 2
    /\ Len(obs.prev.fn_ids) = 1 /\ cxt.fn_ids = <<>>
    /\ Len(obs.prev.types) = 1 /\ cxt.types = <<>>
    /\ CxtVar(cxt, SymX) # CxtVar(obs.prev, SymX)
    /\ CxtVar(obs.prev, SymX).v[1] \in DOMAIN cxt.tys

\* C30: the i-th id allocated in a context, of whatever kind, is i: every
\* allocation returns the counter's previous value plus one, so the ids are
\* strictly increasing, pairwise different and never 0, the initial value of
\* the current-function field.
C30_FreshIds ==
    /\ cxt.next = Len(obs.ids)
    /\ \A i \in 1..Len(obs.ids) : obs.ids[i] = i
    /\ \A i \in 1..Len(obs.ids) : obs.ids[i] # CxtNew.current_fn
    /\ obs.op \in {"var", "fn", "class", "loop"} =>
          obs.ids[Len(obs.ids)] = obs.prev.next + 1

\* a variable, a function, a class and a block label have been allocated
C30_Witness ==
    /\ Len(obs.ids) = 4
    /\ Len(cxt.vars) = 1 /\ Len(cxt.fn_ids) = 1 /\ Len(cxt.types) = 1 /\ Len(cxt.blocks) = 1
    /\ cxt.blocks[1][1] = Some(4)

(***************************************************************************)
(* Specification SpecScope: a module with a top-level let, a class and a   *)
(* function is declared, lowered and emitted item by item.  The initial    *)
(* value of the let and of the member of the class is nothing, a literal,  *)
(* an if used as a value or a block with a let of its own; the function    *)
(* has arguments and locals.  The name table of the emitter is observed    *)
(* before and after every item.                                            *)
(***************************************************************************)
MaxLocal == 2       \* locals of the function (0..MaxLocal)

SymG == <<<<"m", "g">>, TRUE>>
SymF == <<<<"m", "C", "f">>, TRUE>>
TyC == <<"m", "C">>
ScopeInits == {"none", "lit", "if", "block"}
ScopeInputs ==
    [kind : {"scope"}, init : ScopeInits, member : ScopeInits, k : 1..MaxComp,
     locals : 0..MaxLocal, nargs : 0..MaxArg]

\* the initial value of the let or of the member
ScopeValue(init, k) ==
    CASE init = "none" -> None
      [] init = "lit" -> ElemTerm(k, 1)
      [] init = "if" ->
            TIf(TBinOp("Lt", TLit(1), TLit(2)), ElemTerm(k, 100), ElemTerm(k, 200))
      [] init = "block" -> TBlock(<<StLet(SymP, ElemType(k), ElemTerm(k, 100))>>, TVar(SymP))
ScopeItems(i) ==
    <<ILet(SymG, ElemType(i.k), ScopeValue(i.init, i.k)),
      IClass(TyC, <<<<SymF, ElemType(i.k), ScopeValue(i.member, i.k)>>>>, <<>>),
      IFn(FnMain, [j \in 1..i.nargs |-> <<SymA, TI32>>], TUnit,
          TBlock([j \in 1..i.locals |-> StLet(SymQ, TI32, TLit(j))], None), TRUE)>>

ScopeInit ==
    /\ pc = "decl"
    /\ inp \in ScopeInputs
    /\ cxt = CxtNew
    /\ rt = RtInit
    /\ obs = [op |-> "none", n |-> 0, mappings |-> <<>>, gen |-> GenNew(<<>>),
              before |-> <<>>, item |-> "none"]

\* declare_p1 over the items of the module
ScopeDeclareP1 ==
    /\ pc = "decl"
    /\ cxt' = DeclareP1(ScopeItems(inp), 1, cxt)
    /\ obs' = [obs EXCEPT !.op = "decl"]
    /\ pc' = "decl2"
    /\ UNCHANGED <<inp, rt>>

\* declare_p2 over the items of the module
ScopeDeclared(d) ==
    /\ cxt' = d.c
    /\ obs' = [obs EXCEPT !.op = "decl2", !.mappings = d.mod.mappings]
ScopeDeclareP2 ==
    /\ pc = "decl2"
    /\ ScopeDeclared(DeclareP2(ScopeItems(inp), cxt, "m"))
    /\ pc' = "lower"
    /\ UNCHANGED <<inp, rt>>

\* IRMod::codegen, one turn of the loop over self.code
ScopeLower ==
    /\ pc = "lower"
    /\ obs.n < Len(ScopeItems(inp))
    /\ cxt.panic = ""
    /\ cxt' = ItemLower(ScopeItems(inp)[obs.n + 1], cxt)
    /\ obs' = [obs EXCEPT !.op = "lower", !.n = @ + 1]
    /\ UNCHANGED <<pc, inp, rt>>

\* IRMod::codegen: the mappings are merged into the table of a new Gen
ScopeCodegen ==
    /\ pc = "lower"
    /\ obs.n = Len(ScopeItems(inp))
    /\ cxt.panic = ""
    /\ obs' = [obs EXCEPT !.op = "gen", !.n = 0,
                          !.gen = GenNew(MergeNames(obs.mappings, 1, "m", <<>>))]
    /\ pc' = "emit"
    /\ UNCHANGED <<inp, cxt, rt>>

\* IRMod::codegen, one turn of the loop over cxt.items: JItem::gen
ScopeEmit ==
    /\ pc = "emit"
    /\ obs.n < Len(cxt.items)
    /\ obs' = [obs EXCEPT !.op = "emit", !.n = @ + 1,
                          !.before = obs.gen.names,
                          !.item = cxt.items[obs.n + 1].tag,
                          !.gen = GenItem(cxt.items[obs.n + 1], obs.gen)]
    /\ UNCHANGED <<pc, inp, cxt, rt>>

ScopeNext ==
    ScopeDeclareP1 \/ ScopeDeclareP2 \/ ScopeLower \/ ScopeCodegen \/ ScopeEmit

SpecScope == ScopeInit /\ [][ScopeNext]_vars

(***************************************************************************)
(* Claim about the name table and scopes, checked under SpecScope.         *)
(***************************************************************************)
\* C28: entering a function or another scope (the constructor of a class, the
\* static initializer block of a top-level let) snapshots the name table of the
\* emitter and leaving it restores the snapshot: after an item is emitted the
\* table is the one the item started with, and every lookup found its entry.
C28_NamesRestored ==
    (pc = "emit" /\ obs.op = "emit") =>
        /\ obs.gen.missing = {}
        /\ obs.gen.names = obs.before

(***************************************************************************)
(* Claim about the emitted switch, checked under SpecMod.                  *)
(***************************************************************************)
\* C29: running an emitted Switch runs the statements of exactly one case, the
\* arm whose variant is the scrutinee, or the default block when no arm
\* matches: q holds the number of that arm alone.  Every arm is written with a
\* closing break b$k for the label k of the switch itself, so control never
\* falls into the next arm or into the default, and the switch has a default
\* block, an empty one when the match has no default branch.
C29_SwitchOneCase ==
    (inp.kind = "switch" /\ pc = "done") =>
        /\ rt.ctl = "run"
        /\ Values(rt, LetLocals(MainBody, "q")) = <<IntV(SwitchExpected(inp))>>
        /\ Len(MainSwitch.branches) = Len(inp.arms)
        /\ \A i \in 1..Len(MainSwitch.branches) :
              /\ MainSwitch.branches[i][1] = Variants[inp.arms[i]]
              /\ SwitchArm(MainSwitch, i)[Len(SwitchArm(MainSwitch, i))]
                    = SBreak(MainSwitch.k)
              /\ \A j \in 1..Len(MainSwitch.branches[i][2]) :
                    MainSwitch.branches[i][2][j].tag # "Break"
        /\ (inp.default = "none") <=> (MainSwitch.default = <<>>)
        /\ SwitchFrom(MainSwitch, Len(MainSwitch.branches) + 1) = MainSwitch.default
C29_Witness ==
    /\ inp.kind = "switch" /\ pc = "done" /\ rt.ctl = "run"
    /\ Len(inp.arms) = Len(Variants) /\ inp.arms[1] = inp.v /\ inp.default = "last"
    /\ inp.pay
    /\ Values(rt, LetLocals(MainBody, "q")) = <<IntV(ArmCode(inp.v))>>
    /\ Len(MainSwitch.default) > 0

====
